---- MODULE Spec2Model ----
(***************************************************************************)
(* SyncFromNotion: the upsert engine of the plugin backend (v1.2.0).       *)
(* The document is a tree of nodes; a sync pass indexes the tagged nodes,  *)
(* then for every record of the batch updates the indexed nodes of its key *)
(* or inserts a new instance of the template and fills it.                 *)
(* Strings are sequences of one-character strings, so that toLowerCase,    *)
(* trim, split and the list pattern are computed and not assumed.          *)
(***************************************************************************)
EXTENDS Integers, Sequences, FiniteSets, TLC

VARIABLES
  nodes,         \* the scene: node id -> node (ids are 1..Len(nodes))
  pageChildren,  \* figma.currentPage.children, in order
  msg,           \* the request the UI sends: templateId, componentId, data, mappings, idField
  pc,            \* position of the handler: "idle", "run" (record loop), "fill", "filled"
  pass,          \* locals of the running sync-mapped-data handler
  out,           \* messages posted to the UI for the current request
  passes,        \* number of sync requests handled so far
  last,          \* what the last step did (history)
  prev,          \* document and counts at the end of the previous pass (history)
  moves,         \* number of manual moves made so far
  selection,     \* figma.currentPage.selection, in order
  reply,         \* the tool request handled last and the payload it posted
  ops            \* number of tool requests that changed the document so far

vars == <<nodes, pageChildren, msg, pc, pass, out, passes, last, prev, moves,
          selection, reply, ops>>

\* ------------------------------------------------------------------ bounds
MaxShort == 2      \* batches of every content up to this length
MaxLong == 6       \* longest batch (records with distinct identifiers)
MaxPasses == 2     \* sync requests in one behaviour
MaxMoves == 1      \* manual moves between passes
MaxOps == 1        \* document-changing tool requests in one behaviour

\* --------------------------------------------------------------- constants
CARD_GAP == 20
CARDS_PER_ROW == 4
DEFAULT_SIZE == 100

\* ----------------------------------------------------------------- strings
NL == "\n"
TAB == "\t"
Whitespace == {" ", NL, TAB}
Digits == <<"0", "1", "2", "3", "4", "5", "6", "7", "8", "9">>
UpperChars == <<"A", "B", "C", "D", "E", "F", "G", "H", "I", "J", "K", "L", "M",
                "N", "O", "P", "Q", "R", "S", "T", "U", "V", "W", "X", "Y", "Z">>
LowerChars == <<"a", "b", "c", "d", "e", "f", "g", "h", "i", "j", "k", "l", "m",
                "n", "o", "p", "q", "r", "s", "t", "u", "v", "w", "x", "y", "z">>

IsDigit(c) == \E d \in 1..10 : Digits[d] = c

LowerChar(c) ==
  IF \E k \in 1..26 : UpperChars[k] = c
    THEN LowerChars[CHOOSE k \in 1..26 : UpperChars[k] = c]
    ELSE c

\* String.prototype.toLowerCase
ToLowerCase(s) == [k \in 1..Len(s) |-> LowerChar(s[k])]

RECURSIVE TrimStart(_)
TrimStart(s) ==
  IF s # <<>> /\ Head(s) \in Whitespace THEN TrimStart(Tail(s)) ELSE s

RECURSIVE TrimEnd(_)
TrimEnd(s) ==
  IF s # <<>> /\ s[Len(s)] \in Whitespace
    THEN TrimEnd(SubSeq(s, 1, Len(s) - 1))
    ELSE s

\* String.prototype.trim
Trim(s) == TrimEnd(TrimStart(s))

\* String.prototype.split('\n'): always at least one line
RECURSIVE SplitLines(_)
SplitLines(s) ==
  IF \E k \in 1..Len(s) : s[k] = NL
    THEN LET k == CHOOSE j \in 1..Len(s) : s[j] = NL /\ \A h \in 1..(j - 1) : s[h] # NL
         IN <<SubSeq(s, 1, k - 1)>> \o SplitLines(SubSeq(s, k + 1, Len(s)))
    ELSE <<s>>

\* Array.prototype.join('\n')
RECURSIVE JoinLines(_)
JoinLines(ls) ==
  IF Len(ls) = 0 THEN <<>>
  ELSE IF Len(ls) = 1 THEN ls[1]
  ELSE ls[1] \o <<NL>> \o JoinLines(Tail(ls))

\* number of leading characters of s that satisfy the test
RECURSIVE CountDigits(_)
CountDigits(s) ==
  IF s # <<>> /\ IsDigit(Head(s)) THEN 1 + CountDigits(Tail(s)) ELSE 0

RECURSIVE CountSpace(_)
CountSpace(s) ==
  IF s # <<>> /\ Head(s) \in Whitespace THEN 1 + CountSpace(Tail(s)) ELSE 0

\* length of the match of /^\d+\.\s+/ at the start of line, 0 when no match
numberedPattern(line) ==
  LET d == CountDigits(line)
      rest == SubSeq(line, d + 2, Len(line))
  IN IF d >= 1 /\ Len(line) > d /\ line[d + 1] = "." /\ CountSpace(rest) >= 1
       THEN d + 1 + CountSpace(rest)
       ELSE 0

\* line.replace(numberedPattern, '')
StripPrefix(line) == SubSeq(line, numberedPattern(line) + 1, Len(line))

\* ------------------------------------------------------------------ values
\* a record value: string, number, boolean or null; an absent key is Undefined
Null == [t |-> "null"]
Undefined == [t |-> "undefined"]
Bool(b) == [t |-> "bool", v |-> b]
Num(n) == [t |-> "num", v |-> n]
Str(s) == [t |-> "str", v |-> s]

\* record[field]
Get(record, field) == IF field \in DOMAIN record THEN record[field] ELSE Undefined

RECURSIVE NatStr(_)
NatStr(n) == IF n < 10 THEN <<Digits[n + 1]>> ELSE NatStr(n \div 10) \o <<Digits[(n % 10) + 1]>>

\* String(value)
String(val) ==
  CASE val.t = "str" -> val.v
    [] val.t = "num" -> IF val.v < 0 THEN <<"-">> \o NatStr(0 - val.v) ELSE NatStr(val.v)
    [] val.t = "bool" -> IF val.v THEN <<"t", "r", "u", "e">> ELSE <<"f", "a", "l", "s", "e">>
    [] val.t = "null" -> <<"n", "u", "l", "l">>
    [] OTHER -> <<"u", "n", "d", "e", "f", "i", "n", "e", "d">>

\* JavaScript truthiness, as used by record[idField] || `row-${i}`
Truthy(val) ==
  CASE val.t = "str" -> val.v # <<>>
    [] val.t = "num" -> val.v # 0
    [] val.t = "bool" -> val.v
    [] OTHER -> FALSE

TrueWords == {<<"t", "r", "u", "e">>, <<"y", "e", "s">>, <<"1">>,
              <<"c", "h", "e", "c", "k", "e", "d">>, <<"o", "k">>}
FalseWords == {<<"f", "a", "l", "s", "e">>, <<"n", "o">>, <<"0">>,
               <<"u", "n", "c", "h", "e", "c", "k", "e", "d">>, <<>>,
               <<"n", "u", "l", "l">>}

parseBooleanNoTrim(val) ==
  CASE val.t = "bool" -> val.v
    [] val.t = "num" -> val.v # 0
    [] val.t = "str" ->
         LET s == ToLowerCase(val.v)
         IN IF s \in TrueWords THEN TRUE
            ELSE IF s \in FalseWords THEN FALSE
            ELSE Len(s) > 0
    [] OTHER -> FALSE

parseBoolean(val) ==
  CASE val.t = "bool" -> val.v
    [] val.t = "num" -> val.v # 0
    [] val.t = "str" ->
         LET s == Trim(ToLowerCase(val.v))
         IN IF s \in TrueWords THEN TRUE
            ELSE IF s \in FalseWords THEN FALSE
            ELSE Len(s) > 0
    [] OTHER -> FALSE

\* ---------------------------------------------------------------- document
\* node types for which ('children' in node) holds
Containers == {"FRAME", "GROUP", "INSTANCE", "COMPONENT", "COMPONENT_SET"}
HasChildren(n) == n.type \in Containers

\* plugin data img_urls: not set, a JSON object (a set of <<layer, url>>
\* pairs), or a string JSON.parse rejects
NoCache == [state |-> "none", map |-> {}]
Json(map) == [state |-> "json", map |-> map]
Corrupt == [state |-> "corrupt", map |-> {}]

\* parent = 0: child of the current page; parent = -1: lives on another page;
\* fills = 0: no image fill; mainComponent = 0: none
NewNode(type, name, parent, children) ==
  [type |-> type, name |-> name, parent |-> parent, children |-> children,
   visible |-> TRUE, characters |-> <<>>, listType |-> "NONE",
   x |-> 0, y |-> 0, width |-> 0, height |-> 0,
   notionId |-> <<>>, sourceComponentId |-> 0,
   fills |-> 0, imgUrls |-> NoCache, mainComponent |-> 0]

\* findChildByName over a list of children: depth-first, first match wins; 0 is null
RECURSIVE FindIn(_, _, _)
FindIn(ns, kids, name) ==
  IF kids = <<>> THEN 0
  ELSE LET c == Head(kids)
       IN IF ns[c].name = name THEN c
          ELSE LET found == IF HasChildren(ns[c]) THEN FindIn(ns, ns[c].children, name) ELSE 0
               IN IF found # 0 THEN found ELSE FindIn(ns, Tail(kids), name)

findChildByName(ns, parent, name) == FindIn(ns, ns[parent].children, name)

\* parseAndApplyListStyle: the text node after the value is written
parseAndApplyListStyleAllLines(textNode, rawValue) ==
  LET lines == SplitLines(rawValue)
      isNumberedList == \A k \in 1..Len(lines) : numberedPattern(lines[k]) > 0
  IN IF isNumberedList
       THEN [textNode EXCEPT !.characters = JoinLines([k \in 1..Len(lines) |-> StripPrefix(lines[k])]),
                             !.listType = "ORDERED"]
       ELSE [textNode EXCEPT !.characters = rawValue, !.listType = "NONE"]

parseAndApplyListStyle(textNode, rawValue) ==
  LET lines == SplitLines(rawValue)
      isNumberedList == numberedPattern(lines[1]) > 0
  IN IF isNumberedList
       THEN [textNode EXCEPT !.characters = JoinLines([k \in 1..Len(lines) |-> StripPrefix(lines[k])]),
                             !.listType = "ORDERED"]
       ELSE [textNode EXCEPT !.characters = rawValue, !.listType = "NONE"]

\* one iteration of the loop of fillInstanceData
ApplyMappingTextWhenHidden(ns, instance, record, mapping) ==
  LET targetNode == findChildByName(ns, instance, mapping.layerName)
      value == Get(record, mapping.dataField)
  IN IF targetNode = 0 \/ value.t \in {"undefined", "null"} THEN ns
     ELSE LET ns1 == [ns EXCEPT ![targetNode].visible = parseBoolean(value)]
          IN IF ns[targetNode].type = "TEXT" /\ value.t # "bool"
               THEN [ns1 EXCEPT ![targetNode] = parseAndApplyListStyle(ns1[targetNode], String(value))]
               ELSE ns1

ApplyMappingNullHides(ns, instance, record, mapping) ==
  LET targetNode == findChildByName(ns, instance, mapping.layerName)
      value == Get(record, mapping.dataField)
  IN IF targetNode = 0 THEN ns
     ELSE LET isVisible == parseBoolean(value)
              ns1 == [ns EXCEPT ![targetNode].visible = isVisible]
          IN IF ~isVisible THEN ns1
             ELSE IF ns[targetNode].type = "TEXT" /\ value.t # "bool"
               THEN [ns1 EXCEPT ![targetNode] = parseAndApplyListStyle(ns1[targetNode], String(value))]
               ELSE ns1

ApplyMapping(ns, instance, record, mapping) ==
  LET targetNode == findChildByName(ns, instance, mapping.layerName)
      value == Get(record, mapping.dataField)
  IN IF targetNode = 0 THEN ns
     ELSE IF value.t \in {"undefined", "null"} THEN ns
     ELSE LET isVisible == parseBoolean(value)
              ns1 == [ns EXCEPT ![targetNode].visible = isVisible]
          IN IF ~isVisible THEN ns1
             ELSE IF ns[targetNode].type = "TEXT" /\ value.t # "bool"
               THEN [ns1 EXCEPT ![targetNode] = parseAndApplyListStyle(ns1[targetNode], String(value))]
               ELSE ns1

\* fillInstanceData: the mappings from position j on, in list order
RECURSIVE FillFrom(_, _, _, _, _)
FillFrom(ns, instance, record, mappings, j) ==
  IF j > Len(mappings) THEN ns
  ELSE FillFrom(ApplyMapping(ns, instance, record, mappings[j]), instance, record, mappings, j + 1)

fillInstanceData(ns, instance, record, mappings) == FillFrom(ns, instance, record, mappings, 1)

updateInstance(ns, node, record, mappings) ==
  IF ~HasChildren(ns[node]) THEN ns ELSE fillInstanceData(ns, node, record, mappings)

MapPushLastOnly(map, key, node) ==
  [k \in DOMAIN map \cup {key} |-> IF k = key THEN <<node>> ELSE map[k]]

\* buildExistingMap: notionId -> nodes carrying it, in the order walk visits them
MapPush(map, key, node) ==
  IF key \in DOMAIN map
    THEN [map EXCEPT ![key] = Append(@, node)]
    ELSE [k \in DOMAIN map \cup {key} |-> IF k = key THEN <<node>> ELSE map[k]]

walkTopLevel(ns, node, map) ==
  IF ns[node].notionId # <<>> THEN MapPush(map, ns[node].notionId, node) ELSE map

RECURSIVE WalkAll(_, _, _)
walk(ns, node, map) ==
  LET notionId == ns[node].notionId
      map1 == IF notionId # <<>> THEN MapPush(map, notionId, node) ELSE map
  IN IF HasChildren(ns[node]) THEN WalkAll(ns, ns[node].children, map1) ELSE map1

WalkAll(ns, kids, map) ==
  IF kids = <<>> THEN map ELSE WalkAll(ns, Tail(kids), walk(ns, Head(kids), map))

EmptyMap == [k \in {} |-> <<>>]

buildExistingMap(ns, page) == WalkAll(ns, page, EmptyMap)

\* existingMap.get(key): <<>> stands for undefined
MapGet(map, key) == IF key \in DOMAIN map THEN map[key] ELSE <<>>

\* getNextAvailableY
RECURSIVE MaxBottom(_, _, _)
MaxBottom(ns, kids, maxY) ==
  IF kids = <<>> THEN maxY
  ELSE LET bottom == ns[Head(kids)].y + ns[Head(kids)].height
       IN MaxBottom(ns, Tail(kids), IF bottom > maxY THEN bottom ELSE maxY)

getNextAvailableYTops(ns, page) ==
  LET tops == {ns[page[k]].y : k \in 1..Len(page)}
      maxY == IF tops = {} THEN 0 ELSE CHOOSE t \in tops : \A u \in tops : u <= t
  IN IF maxY > 0 THEN maxY + CARD_GAP * 2 ELSE 0

getNextAvailableYOneGap(ns, page) ==
  LET maxY == MaxBottom(ns, page, 0)
  IN IF maxY > 0 THEN maxY + CARD_GAP ELSE 0

getNextAvailableY(ns, page) ==
  LET maxY == MaxBottom(ns, page, 0)
  IN IF maxY > 0 THEN maxY + CARD_GAP * 2 ELSE 0

\* templateNode.clone() / createInstance(): a copy of the subtree of src appended
\* to ns; the copy of src gets the first new id, Len(ns) + 1
RECURSIVE CopyTree(_, _, _)
RECURSIVE CopyKids(_, _, _, _)
CopyTree(ns, src, parent) ==
  LET id == Len(ns) + 1
      ns1 == Append(ns, [ns[src] EXCEPT !.parent = parent, !.children = <<>>])
  IN IF HasChildren(ns[src]) THEN CopyKids(ns1, ns[src].children, id, 1) ELSE ns1

CopyKids(ns, kids, parent, k) ==
  IF k > Len(kids) THEN ns
  ELSE LET id == Len(ns) + 1
           ns1 == CopyTree(ns, kids[k], parent)
       IN CopyKids([ns1 EXCEPT ![parent].children = Append(@, id)], kids, parent, k + 1)

\* createInstance() for a COMPONENT (an INSTANCE at the origin, no plugin data
\* on its root), clone() otherwise
Instantiate(ns, templateNode) ==
  LET id == Len(ns) + 1
      ns1 == CopyTree(ns, templateNode, -1)
  IN IF ns[templateNode].type = "COMPONENT"
       THEN [ns1 EXCEPT ![id].type = "INSTANCE", ![id].x = 0, ![id].y = 0,
                        ![id].notionId = <<>>, ![id].sourceComponentId = 0,
                        ![id].imgUrls = NoCache, ![id].mainComponent = templateNode]
       ELSE ns1

\* ------------------------------------------------------------ sync handler
\* figma.getNodeByIdAsync: 0 is null
getNodeById(ns, id) == IF id \in 1..Len(ns) THEN id ELSE 0

\* `row-${i}`
RowKey(i) == <<"r", "o", "w", "-">> \o NatStr(i)

\* String(record[idField] || `row-${i}`), i counted from 0
recordIdNoFallback(record, field, i) == String(Get(record, field))

recordId(record, field, i) ==
  LET v == Get(record, field) IN IF Truthy(v) THEN String(v) ELSE RowKey(i)

\* for (const existingNode of existingNodes) await updateInstance(...)
RECURSIVE UpdateEach(_, _, _, _)
UpdateEach(ns, existingNodes, record, mappings) ==
  IF existingNodes = <<>> THEN ns
  ELSE UpdateEach(updateInstance(ns, Head(existingNodes), record, mappings),
                  Tail(existingNodes), record, mappings)

UpdateFirstOnly(ns, existingNodes, record, mappings) ==
  updateInstance(ns, Head(existingNodes), record, mappings)

UpdateAndMove(ns, existingNodes, record, mappings) ==
  LET ns1 == UpdateEach(ns, existingNodes, record, mappings)
  IN [ns1 EXCEPT ![Head(existingNodes)].y = @ + CARD_GAP]

\* the UPDATE branch: the document after every node of existingNodes is updated
UpdateAll(ns, existingNodes, record, mappings) ==
  UpdateEach(ns, existingNodes, record, mappings)

\* grid position of the newIndex-th insertion
GridXNoGap(newIndex, cardWidth) == (newIndex % CARDS_PER_ROW) * cardWidth
GridX(newIndex, cardWidth) == (newIndex % CARDS_PER_ROW) * (cardWidth + CARD_GAP)
GridY(newIndex, cardHeight, startY) ==
  startY + (newIndex \div CARDS_PER_ROW) * (cardHeight + CARD_GAP)

InsertShellNoLineage(ns, templateNode, x, y, key, componentId) ==
  LET instance == Len(ns) + 1
      ns1 == Instantiate(ns, templateNode)
  IN [ns1 EXCEPT ![instance].parent = 0, ![instance].x = x, ![instance].y = y,
                 ![instance].notionId = key]

\* the INSERT branch up to the fill: instantiate, append to the page, place, tag
InsertShell(ns, templateNode, x, y, key, componentId) ==
  LET instance == Len(ns) + 1
      ns1 == Instantiate(ns, templateNode)
  IN [ns1 EXCEPT ![instance].parent = 0, ![instance].x = x, ![instance].y = y,
                 ![instance].notionId = key,
                 ![instance].sourceComponentId = componentId]

\* the INSERT branch: the new instance, then fillInstanceData on it
InsertInstance(ns, templateNode, x, y, key, componentId, record, mappings) ==
  fillInstanceData(InsertShell(ns, templateNode, x, y, key, componentId),
                   Len(ns) + 1, record, mappings)

\* findChildByName iterates parent.children: on an instance that has none the
\* first rule of fillInstanceData throws a TypeError
FillThrows(ns, templateNode, mappings) ==
  ~HasChildren(ns[templateNode]) /\ Len(mappings) > 0

NoPass == [templateNode |-> 0, existingMap |-> EmptyMap, startY |-> 0,
           cardWidth |-> 0, cardHeight |-> 0, newIndex |-> 0,
           updatedCount |-> 0, createdCount |-> 0, affectedNodes |-> <<>>, i |-> 0,
           \* history: the scene size and the page's children when the pass started
           startLen |-> 0, startPage |-> <<>>]

\* history of the pass before the running one
NoPrev == [done |-> FALSE, untouched |-> FALSE, nodes |-> <<>>,
           aborted |-> FALSE, startLen |-> 0, afterAbort |-> FALSE,
           createdCount |-> 0, updatedCount |-> 0,
           repeat |-> FALSE, firstNodes |-> <<>>]

\* no tool request handled yet, nothing selected
NoReply == [type |-> "none"]
ToolsIdle == selection = <<>> /\ reply = NoReply /\ ops = 0

NoLast == [op |-> "none", i |-> 0, key |-> <<>>, elems |-> <<>>]

HasSize(n) == n.type # "PAGE"

\* sync-mapped-data up to the record loop: validation, template resolution,
\* index build, insertion origin
SyncStart ==
  /\ pc = "idle"
  /\ passes < MaxPasses
  /\ passes' = passes + 1
  /\ last' = [NoLast EXCEPT !.op = "start"]
  /\ UNCHANGED <<nodes, pageChildren, msg, prev, moves, selection, reply, ops>>
  /\ LET targetSourceId == IF msg.templateId # 0 THEN msg.templateId ELSE msg.componentId
         templateNode == getNodeById(nodes, targetSourceId)
     IN IF Len(msg.data) = 0 \/ Len(msg.mappings) = 0 \/ templateNode = 0
          THEN /\ out' = <<"error">>
               /\ pc' = "idle"
               /\ pass' = NoPass
          ELSE /\ out' = <<"status", "status", "status">>
               /\ pc' = "run"
               /\ pass' = [NoPass EXCEPT
                    !.templateNode = templateNode,
                    !.startLen = Len(nodes),
                    !.startPage = pageChildren,
                    !.existingMap = buildExistingMap(nodes, pageChildren),
                    !.startY = getNextAvailableY(nodes, pageChildren),
                    !.cardWidth = IF HasSize(nodes[templateNode])
                                    THEN nodes[templateNode].width ELSE DEFAULT_SIZE,
                    !.cardHeight = IF HasSize(nodes[templateNode])
                                     THEN nodes[templateNode].height ELSE DEFAULT_SIZE]

\* the record at pass.i misses the index and the template's copy has no children
InsertThrows ==
  /\ MapGet(pass.existingMap, recordId(msg.data[pass.i + 1], msg.idField, pass.i)) = <<>>
  /\ FillThrows(nodes, pass.templateNode, msg.mappings)

CaughtAndDone(messages) == messages \o <<"error", "done">>

CaughtSilently(messages) == messages

\* the catch of the handler: one 'error' message, the handler returns
Caught(messages) == Append(messages, "error")

\* history of an aborted pass
Aborted == [NoPrev EXCEPT !.aborted = TRUE, !.untouched = TRUE, !.startLen = pass.startLen]

\* an iteration of the record loop that inserts a copy of a childless template:
\* the copy is appended, placed and tagged, then fillInstanceData throws
SyncRecordThrows ==
  /\ pc = "run"
  /\ InsertThrows
  /\ LET i == pass.i
         key == recordId(msg.data[i + 1], msg.idField, i)
         instance == Len(nodes) + 1
     IN /\ nodes' = InsertShell(nodes, pass.templateNode,
                                GridX(pass.newIndex, pass.cardWidth),
                                GridY(pass.newIndex, pass.cardHeight, pass.startY),
                                key, msg.componentId)
        /\ pageChildren' = Append(pageChildren, instance)
        /\ last' = [op |-> "abort", i |-> i, key |-> key, elems |-> <<instance>>]
  /\ out' = Caught(out)
  /\ pc' = "idle"
  /\ prev' = Aborted
  /\ UNCHANGED <<msg, pass, passes, moves, selection, reply, ops>>

\* one iteration of the record loop; after the last record the handler posts 'done'
SyncRecord ==
  /\ pc = "run"
  /\ ~InsertThrows
  /\ LET i == pass.i
         record == msg.data[i + 1]
         key == recordId(record, msg.idField, i)
         existingNodes == MapGet(pass.existingMap, key)
         finished == i + 1 = Len(msg.data)
         instance == Len(nodes) + 1
         nodes1 == IF existingNodes # <<>>
                     THEN UpdateAll(nodes, existingNodes, record, msg.mappings)
                     ELSE InsertInstance(nodes, pass.templateNode,
                                         GridX(pass.newIndex, pass.cardWidth),
                                         GridY(pass.newIndex, pass.cardHeight, pass.startY),
                                         key, msg.componentId, record, msg.mappings)
         pass1 == IF existingNodes # <<>>
                    THEN [pass EXCEPT !.updatedCount = @ + Len(existingNodes),
                                      !.affectedNodes = @ \o existingNodes,
                                      !.i = i + 1]
                    ELSE [pass EXCEPT !.createdCount = @ + 1,
                                      !.newIndex = @ + 1,
                                      !.affectedNodes = Append(@, instance),
                                      !.i = i + 1]
     IN /\ nodes' = nodes1
        /\ pageChildren' = IF existingNodes # <<>> THEN pageChildren
                           ELSE Append(pageChildren, instance)
        /\ pass' = pass1
        /\ last' = IF existingNodes # <<>>
                     THEN [op |-> "update", i |-> i, key |-> key, elems |-> existingNodes]
                     ELSE [op |-> "insert", i |-> i, key |-> key, elems |-> <<instance>>]
        /\ out' = IF finished THEN out \o <<"status", "done">> ELSE Append(out, "status")
        /\ pc' = IF finished THEN "idle" ELSE "run"
        /\ prev' = IF finished
                     THEN [done |-> TRUE, untouched |-> TRUE, nodes |-> nodes1,
                           aborted |-> FALSE, startLen |-> prev.startLen,
                           afterAbort |-> prev.aborted /\ prev.untouched,
                           createdCount |-> pass1.createdCount,
                           updatedCount |-> pass1.updatedCount,
                           repeat |-> prev.done /\ prev.untouched,
                           firstNodes |-> IF prev.done /\ prev.untouched
                                            THEN prev.nodes ELSE <<>>]
                     ELSE prev
  /\ UNCHANGED <<msg, passes, moves, selection, reply, ops>>

\* fillInstanceData: the first j mappings applied
RECURSIVE FillPrefix(_, _, _, _, _)
FillPrefix(ns, instance, record, mappings, j) ==
  IF j = 0 THEN ns
  ELSE ApplyMapping(FillPrefix(ns, instance, record, mappings, j - 1),
                    instance, record, mappings[j])

\* the mapping gets as far as loadFontAsync: a visible text target and a value
\* that is not a boolean
ReachesFont(ns, instance, record, mapping) ==
  LET targetNode == findChildByName(ns, instance, mapping.layerName)
      value == Get(record, mapping.dataField)
  IN /\ targetNode # 0
     /\ value.t \notin {"undefined", "null"}
     /\ parseBoolean(value)
     /\ ns[targetNode].type = "TEXT"
     /\ value.t # "bool"

\* fillInstanceData can throw at mapping j, in loadFontAsync
CanThrowAt(ns, instance, record, mappings, j) ==
  /\ HasChildren(ns[instance])
  /\ ReachesFont(FillPrefix(ns, instance, record, mappings, j - 1), instance, record, mappings[j])

FillUntilThrowUntagged(ns, instance, record, mappings, j) ==
  LET ns1 == FillPrefix(ns, instance, record, mappings, j - 1)
      targetNode == findChildByName(ns1, instance, mappings[j].layerName)
  IN [ns1 EXCEPT ![targetNode].visible = TRUE, ![instance].notionId = <<>>]

\* the document when fillInstanceData throws at mapping j: the mappings before
\* it applied, the target of mapping j made visible
FillUntilThrow(ns, instance, record, mappings, j) ==
  LET ns1 == FillPrefix(ns, instance, record, mappings, j - 1)
      targetNode == findChildByName(ns1, instance, mappings[j].layerName)
  IN [ns1 EXCEPT ![targetNode].visible = TRUE]

\* an iteration of the record loop in which loadFontAsync rejects: on the
\* update path at element k of the key, on the insert path in the fill of the
\* new instance
SyncRecordFontFails ==
  /\ pc = "run"
  /\ ~InsertThrows
  /\ LET i == pass.i
         record == msg.data[i + 1]
         key == recordId(record, msg.idField, i)
         existingNodes == MapGet(pass.existingMap, key)
         instance == Len(nodes) + 1
         shell == InsertShell(nodes, pass.templateNode,
                              GridX(pass.newIndex, pass.cardWidth),
                              GridY(pass.newIndex, pass.cardHeight, pass.startY),
                              key, msg.componentId)
     IN \E j \in 1..Len(msg.mappings) :
          IF existingNodes # <<>>
            THEN \E k \in 1..Len(existingNodes) :
                   LET ns0 == UpdateEach(nodes, SubSeq(existingNodes, 1, k - 1), record, msg.mappings)
                   IN /\ CanThrowAt(ns0, existingNodes[k], record, msg.mappings, j)
                      /\ nodes' = FillUntilThrow(ns0, existingNodes[k], record, msg.mappings, j)
                      /\ pageChildren' = pageChildren
                      /\ last' = [op |-> "abort", i |-> i, key |-> key,
                                  elems |-> SubSeq(existingNodes, 1, k)]
            ELSE /\ CanThrowAt(shell, instance, record, msg.mappings, j)
                 /\ nodes' = FillUntilThrow(shell, instance, record, msg.mappings, j)
                 /\ pageChildren' = Append(pageChildren, instance)
                 /\ last' = [op |-> "abort", i |-> i, key |-> key, elems |-> <<instance>>]
  /\ out' = Caught(out)
  /\ pc' = "idle"
  /\ prev' = Aborted
  /\ UNCHANGED <<msg, pass, passes, moves, selection, reply, ops>>

\* between two passes the user drags a top-level element somewhere else
MovePlaces == {<<330, 770>>}

UserMove ==
  /\ pc = "idle"
  /\ moves < MaxMoves
  /\ passes >= 1
  /\ \E k \in 1..Len(pageChildren), to \in MovePlaces :
       /\ nodes[pageChildren[k]].notionId # <<>>
       /\ <<nodes[pageChildren[k]].x, nodes[pageChildren[k]].y>> # to
       /\ nodes' = [nodes EXCEPT ![pageChildren[k]].x = to[1], ![pageChildren[k]].y = to[2]]
       /\ last' = [NoLast EXCEPT !.op = "move", !.elems = <<pageChildren[k]>>]
  /\ moves' = moves + 1
  /\ prev' = [prev EXCEPT !.untouched = FALSE]
  /\ UNCHANGED <<pageChildren, msg, pc, pass, out, passes, selection, reply, ops>>

\* ------------------------------------------------------------ tool handlers
\* selection.filter(node => node.getPluginData('notionId'))
RECURSIVE nodesWithId(_, _)
nodesWithId(ns, sel) ==
  IF sel = <<>> THEN <<>>
  ELSE IF ns[Head(sel)].notionId # <<>>
    THEN <<Head(sel)>> \o nodesWithId(ns, Tail(sel))
    ELSE nodesWithId(ns, Tail(sel))

\* String(item[idField] || '')
SelectedKey(item, idField) ==
  IF Truthy(Get(item, idField)) THEN String(Get(item, idField)) ELSE <<>>

\* notionData.find(...): position of the first record of the key, 0 if none
RECURSIVE FindRecord(_, _, _, _)
FindRecord(notionData, idField, notionId, j) ==
  IF j > Len(notionData) THEN 0
  ELSE IF SelectedKey(notionData[j], idField) = notionId THEN j
  ELSE FindRecord(notionData, idField, notionId, j + 1)

findRecordOrFirst(notionData, idField, notionId) ==
  LET j == FindRecord(notionData, idField, notionId, 1)
  IN IF j = 0 THEN 1 ELSE j

findRecord(notionData, idField, notionId) == FindRecord(notionData, idField, notionId, 1)

\* the loop of sync-selected over the tagged selected nodes: the document, and
\* the nodes counted in updatedCount
RECURSIVE SelectedEach(_, _, _, _, _)
SelectedEach(ns, sel, notionData, idField, mappings) ==
  IF sel = <<>> THEN [nodes |-> ns, updated |-> <<>>]
  ELSE LET node == Head(sel)
           j == findRecord(notionData, idField, ns[node].notionId)
           ns1 == IF j = 0 THEN ns ELSE updateInstance(ns, node, notionData[j], mappings)
           rest == SelectedEach(ns1, Tail(sel), notionData, idField, mappings)
       IN [nodes |-> rest.nodes,
           updated |-> IF j = 0 THEN rest.updated ELSE <<node>> \o rest.updated]

\* sync-selected
SyncSelected ==
  /\ pc = "idle"
  /\ LET tagged == nodesWithId(nodes, selection)
         done == SelectedEach(nodes, tagged, msg.data, msg.idField, msg.mappings)
     IN IF selection = <<>> \/ tagged = <<>> \/ getNodeById(nodes, msg.componentId) = 0
          THEN /\ out' = <<"error">>
               /\ reply' = [type |-> "error"]
               /\ nodes' = nodes
               /\ last' = [NoLast EXCEPT !.op = "sync-selected"]
          ELSE /\ out' = <<"sync-selected-done">>
               /\ reply' = [type |-> "sync-selected-done",
                            updatedCount |-> Len(done.updated),
                            updatedNotionIds |-> [k \in 1..Len(done.updated) |->
                                                    nodes[done.updated[k]].notionId],
                            totalCount |-> Len(tagged)]
               /\ nodes' = done.nodes
               /\ last' = [NoLast EXCEPT !.op = "sync-selected", !.elems = done.updated]
  /\ UNCHANGED <<pageChildren, msg, pc, pass, passes, prev, moves, selection, ops>>

\* read-instance-id
ReadInstanceId ==
  /\ pc = "idle"
  /\ IF selection = <<>> \/ nodes[selection[1]].notionId = <<>>
       THEN /\ out' = <<"error">>
            /\ reply' = [type |-> "error"]
       ELSE /\ out' = <<"instance-id-info">>
            /\ reply' = [type |-> "instance-id-info",
                         currentId |-> nodes[selection[1]].notionId,
                         nodeName |-> nodes[selection[1]].name]
  /\ last' = [NoLast EXCEPT !.op = "read-id"]
  /\ UNCHANGED <<nodes, pageChildren, msg, pc, pass, passes, prev, moves, selection, ops>>

\* what update-instance-id stores
StoredIdUntrimmed(newId) == newId

StoredId(newId) == Trim(newId)

\* the ids a user types into the tool; <<>> also stands for a missing newId
NewIds == { <<>>, <<" ", " ">>, <<"b">>, <<" ", "a", TAB>>, <<"z", " ", "9">> }

\* update-instance-id
UpdateInstanceId ==
  /\ pc = "idle"
  /\ ops < MaxOps
  /\ ops' = ops + 1
  /\ \E newId \in NewIds :
       IF selection = <<>> \/ newId = <<>> \/ Trim(newId) = <<>>
         THEN /\ out' = <<"error">>
              /\ reply' = [type |-> "error"]
              /\ nodes' = nodes
              /\ last' = [NoLast EXCEPT !.op = "update-id", !.key = newId]
         ELSE /\ out' = <<"id-updated">>
              /\ reply' = [type |-> "id-updated"]
              /\ nodes' = [nodes EXCEPT ![selection[1]].notionId = StoredId(newId)]
              /\ last' = [NoLast EXCEPT !.op = "update-id", !.key = newId,
                                        !.elems = <<selection[1]>>]
  /\ prev' = [prev EXCEPT !.untouched = FALSE]
  /\ UNCHANGED <<pageChildren, msg, pc, pass, passes, moves, selection>>

\* 'fills' in targetLayer
NoFills == {"GROUP"}
HasFills(n) == n.type \notin NoFills

\* urlMap[layerName] = imageUrl on the parsed cache; an unset or unparsable
\* cache starts from {}
PutUrl(cache, layerName, imageUrl) ==
  LET urlMap == IF cache.state = "json" THEN cache.map ELSE {}
  IN Json({q \in urlMap : q[1] # layerName} \cup {<<layerName, imageUrl>>})

SetImageOnAlwaysCached(ns, node, layerName, image, imageUrl) ==
  IF ~HasChildren(ns[node]) THEN ns
  ELSE LET targetLayer == findChildByName(ns, node, layerName)
           ns1 == IF targetLayer # 0 /\ HasFills(ns[targetLayer])
                    THEN [ns EXCEPT ![targetLayer].fills = image] ELSE ns
       IN IF imageUrl = "" THEN ns1
          ELSE [ns1 EXCEPT ![node].imgUrls = PutUrl(@, layerName, imageUrl)]

\* the body of the loop of set-image for one node of the identifier
SetImageOn(ns, node, layerName, image, imageUrl) ==
  IF ~HasChildren(ns[node]) THEN ns
  ELSE LET targetLayer == findChildByName(ns, node, layerName)
       IN IF targetLayer = 0 \/ ~HasFills(ns[targetLayer]) THEN ns
          ELSE LET ns1 == [ns EXCEPT ![targetLayer].fills = image]
               IN IF imageUrl = "" THEN ns1
                  ELSE [ns1 EXCEPT ![node].imgUrls = PutUrl(@, layerName, imageUrl)]

SetImageEachOrTemplate(ns, nodesOfId, layerName, image, imageUrl) ==
  IF nodesOfId = <<>> THEN SetImageOn(ns, 1, layerName, image, imageUrl)
  ELSE SetImageOn(ns, Head(nodesOfId), layerName, image, imageUrl)

RECURSIVE SetImageEach(_, _, _, _, _)
SetImageEach(ns, nodesOfId, layerName, image, imageUrl) ==
  IF nodesOfId = <<>> THEN ns
  ELSE SetImageEach(SetImageOn(ns, Head(nodesOfId), layerName, image, imageUrl),
                    Tail(nodesOfId), layerName, image, imageUrl)

\* the inputs of set-image: identifiers (<<>>: none), layer names ("": none),
\* images (NoImage: no bytes; BadImage: bytes createImage rejects), urls ("": none)
ImageIds == {<<>>, <<"a">>, <<"b">>, <<"z", "z">>}
ImageLayers == {"", "#box", "#title", "#missing"}
NoImage == 0
BadImage == -1
Images == {NoImage, BadImage, 1, 2}
ImageUrls == {"", "u1", "u2"}

\* set-image; it posts no message
SetImage ==
  /\ pc = "idle"
  /\ ops < MaxOps
  /\ ops' = ops + 1
  /\ \E notionId \in ImageIds, layerName \in ImageLayers, image \in Images,
        imageUrl \in ImageUrls :
       /\ nodes' = IF notionId = <<>> \/ image = NoImage \/ layerName = "" \/ image = BadImage
                     THEN nodes
                     ELSE SetImageEach(nodes, MapGet(buildExistingMap(nodes, pageChildren), notionId),
                                       layerName, image, imageUrl)
       /\ reply' = [type |-> "set-image", layerName |-> layerName, image |-> image,
                    imageUrl |-> imageUrl,
                    \* history: the identifier asked for and how many elements had it
                    notionId |-> notionId,
                    found |-> Len(MapGet(buildExistingMap(nodes, pageChildren), notionId))]
       /\ last' = [NoLast EXCEPT !.op = "set-image", !.key = notionId]
  /\ out' = <<>>
  /\ prev' = [prev EXCEPT !.untouched = FALSE]
  /\ UNCHANGED <<pageChildren, msg, pc, pass, passes, moves, selection>>

FirstOfLast(nodesOfId) == nodesOfId[Len(nodesOfId)]

\* nodes[0]
FirstOf(nodesOfId) == nodesOfId[1]

\* the loop of get-image-urls: the object it builds, a set of <<id, urlMap>>
RECURSIVE ImageUrlsOf(_, _, _)
ImageUrlsOf(ns, existingMap, notionIds) ==
  IF notionIds = <<>> THEN {}
  ELSE LET id == Head(notionIds)
           nodesOfId == MapGet(existingMap, id)
           rest == ImageUrlsOf(ns, existingMap, Tail(notionIds))
       IN IF nodesOfId # <<>> /\ ns[FirstOf(nodesOfId)].imgUrls.state = "json"
            THEN {q \in rest : q[1] # id} \cup {<<id, ns[FirstOf(nodesOfId)].imgUrls.map>>}
            ELSE rest

AskedIds ==
  { <<>>, <<<<"a">>>>, <<<<"a">>, <<"b">>>>, <<<<"z", "z">>, <<"b">>>>,
    <<<<"b">>, <<"a">>, <<"z", "z">>, <<"a">>>> }

\* get-image-urls
GetImageUrls ==
  /\ pc = "idle"
  /\ \E notionIds \in AskedIds :
       reply' = [type |-> "image-urls", asked |-> notionIds,
                 urls |-> ImageUrlsOf(nodes, buildExistingMap(nodes, pageChildren), notionIds)]
  /\ out' = <<"image-urls">>
  /\ last' = [NoLast EXCEPT !.op = "get-urls"]
  /\ UNCHANGED <<nodes, pageChildren, msg, pc, pass, passes, prev, moves, selection, ops>>

getMappingIdOwnComponent(ns, node) ==
  IF ns[node].type = "INSTANCE" /\ ns[node].mainComponent # 0
    THEN ns[node].mainComponent ELSE node

\* getMappingId: the id the mapping configuration is stored under
getMappingId(ns, node) ==
  LET target == IF ns[node].type = "INSTANCE" /\ ns[node].mainComponent # 0
                  THEN ns[node].mainComponent ELSE node
  IN IF /\ ns[target].type = "COMPONENT"
        /\ ns[target].parent > 0
        /\ ns[ns[target].parent].type = "COMPONENT_SET"
       THEN ns[target].parent
       ELSE target

\* node.name.includes('#'), over the layer names the documents use
HashNames == {"#box", "#title", "#note", "#solo", "#missing"}

\* collectLayers: the layers whose name holds '#', depth-first; a path is the
\* sequence of names joined by '/'
RECURSIVE collectLayers(_, _, _)
RECURSIVE CollectKids(_, _, _)
collectLayers(ns, node, prefix) ==
  LET fullPath == Append(prefix, ns[node].name)
      own == IF ns[node].name \in HashNames
               THEN << [name |-> ns[node].name, type |-> ns[node].type, path |-> fullPath] >>
               ELSE <<>>
  IN IF HasChildren(ns[node]) THEN own \o CollectKids(ns, ns[node].children, fullPath) ELSE own

CollectKids(ns, kids, prefix) ==
  IF kids = <<>> THEN <<>>
  ELSE collectLayers(ns, Head(kids), prefix) \o CollectKids(ns, Tail(kids), prefix)

\* get-component-layers: the template behind the first selected node (0: none)
SelectedComponent(ns, selected) ==
  CASE ns[selected].type = "COMPONENT" -> selected
    [] ns[selected].type = "INSTANCE" -> ns[selected].mainComponent
    [] ns[selected].type = "COMPONENT_SET" ->
         IF Len(ns[selected].children) > 0 THEN ns[selected].children[1] ELSE 0
    [] ns[selected].type \in {"FRAME", "GROUP"} -> selected
    [] OTHER -> 0

GetComponentLayers ==
  /\ pc = "idle"
  /\ last.op # "get-layers"
  /\ LET component == IF selection = <<>> THEN 0 ELSE SelectedComponent(nodes, selection[1])
     IN IF component = 0
          THEN /\ out' = <<"error">>
               /\ reply' = [type |-> "error"]
          ELSE /\ out' = <<"component-layers">>
               /\ reply' = [type |-> "component-layers",
                            componentId |-> getMappingId(nodes, component),
                            actualTemplateId |-> component,
                            componentName |-> nodes[component].name,
                            layers |-> collectLayers(nodes, component, <<>>)]
  /\ last' = [NoLast EXCEPT !.op = "get-layers"]
  /\ UNCHANGED <<nodes, pageChildren, msg, pc, pass, passes, prev, moves, selection, ops>>

\* ------------------------------------------------------------------ inputs
Rule(layerName, dataField, dataType) ==
  [layerName |-> layerName, dataField |-> dataField, dataType |-> dataType]

RuleLists ==
  { <<>>,
    <<Rule("#box", "show", "text"), Rule("#title", "title", "text"), Rule("#note", "note", "text")>>,
    <<Rule("#title", "title", "text"), Rule("#title", "note", "text")>>,
    <<Rule("#missing", "title", "text"), Rule("#note", "title", "image")>> }

S_a == <<"a">>
S_b == <<"b">>
S_list == <<"1", ".", " ", "A", NL, "2", ".", " ", "B">>

RecA1 == [id |-> Str(S_a), title |-> Str(S_list), show |-> Bool(TRUE), note |-> Str(<<"x">>)]
RecA2 == [id |-> Str(S_a), title |-> Str(<<"B">>), show |-> Bool(FALSE)]
RecB == [id |-> Str(S_b), title |-> Str(<<"n", "o">>), note |-> Str(<<"Q">>)]
RecNoId == [title |-> Str(<<"A">>), show |-> Num(1), note |-> Null]
RecZero == [id |-> Num(0), title |-> Num(7), show |-> Str(<<"N", "o">>), note |-> Str(<<"z">>)]

Records == {RecA1, RecA2, RecB, RecNoId, RecZero}

\* a record with the distinct identifier "k" + j
RecK(j) == [id |-> Str(<<"k">> \o NatStr(j)), title |-> Str(<<"A">>)]

RECURSIVE SeqsOfLen(_, _)
SeqsOfLen(S, n) ==
  IF n = 0 THEN {<<>>}
  ELSE {Append(q, e) : q \in SeqsOfLen(S, n - 1), e \in S}

Batches ==
  UNION {SeqsOfLen(Records, n) : n \in 0..MaxShort}
    \cup {[j \in 1..n |-> RecK(j)] : n \in (MaxShort + 1)..MaxLong}

\* the template: a card with a box holding the title, and a note
TemplateNodes(type, parent) ==
  << [NewNode(type, "Card", parent, <<2, 4>>) EXCEPT !.width = 200, !.height = 100],
     [NewNode("FRAME", "#box", 1, <<3>>) EXCEPT !.width = 180, !.height = 40],
     [NewNode("TEXT", "#title", 2, <<>>) EXCEPT !.characters = <<"T">>, !.width = 90, !.height = 20],
     [NewNode("TEXT", "#note", 1, <<>>) EXCEPT !.characters = <<"N">>, !.y = 50, !.width = 90, !.height = 20] >>

Rect(x, y, width, height) ==
  [NewNode("RECTANGLE", "Rect", 0, <<>>) EXCEPT !.x = x, !.y = y, !.width = width, !.height = height]

InitRules == <<Rule("#title", "title", "text")>>

\* a document holding cards of earlier passes: two cards tagged "a" that were
\* moved by hand, a card tagged "b" moved into a frame, a text tagged "a"
DocWithCards ==
  LET n0 == TemplateNodes("COMPONENT", -1)
      n1 == InsertInstance(n0, 1, 300, 40, S_a, 1, RecA2, InitRules)
      n2 == InsertInstance(n1, 1, -20, 500, S_a, 1, RecA1, InitRules)
      n3 == Append(n2, [NewNode("FRAME", "Holder", 0, <<14>>) EXCEPT
                          !.x = 700, !.y = 0, !.width = 300, !.height = 300])
      n4 == InsertInstance(n3, 1, 10, 10, S_b, 1, RecB, InitRules)
      n5 == [n4 EXCEPT ![14].parent = 13]
      n6 == Append(n5, [NewNode("TEXT", "Label", 0, <<>>) EXCEPT
                          !.x = 0, !.y = 0, !.width = 50, !.height = 10,
                          !.notionId = S_a])
  IN [nodes |-> n6, page |-> <<5, 9, 13, 18>>]

EmptyDoc == [nodes |-> TemplateNodes("COMPONENT", -1), page |-> <<>>]

InitDocs ==
  { EmptyDoc,
    [nodes |-> TemplateNodes("FRAME", -1), page |-> <<>>],
    [nodes |-> [TemplateNodes("FRAME", 0) EXCEPT ![1].x = 40, ![1].y = 60], page |-> <<1>>],
    [nodes |-> Append(TemplateNodes("COMPONENT", -1), Rect(10, -300, 50, 100)), page |-> <<5>>],
    DocWithCards }

\* the template reference of a request: none (componentId is used), the card,
\* the title layer inside the card, a node that is gone
TitleLayer == Len(TemplateNodes("COMPONENT", -1)) - 1
TemplateIds == {0, 1, TitleLayer, 99}

\* the identifier field of a request; NoField is a request without idField:
\* record[undefined] is undefined for every record
NoField == ""
IdFields == {"id", NoField}

Init ==
  /\ \E d \in InitDocs : nodes = d.nodes /\ pageChildren = d.page
  /\ \E data \in Batches, mappings \in RuleLists, templateId \in TemplateIds,
        idField \in IdFields :
       /\ templateId = 0 => Len(data) <= 1
       /\ (templateId = TitleLayer \/ idField = NoField) => Len(data) <= 1
       /\ msg = [templateId |-> templateId, componentId |-> 1, data |-> data,
                 mappings |-> mappings, idField |-> idField]
  /\ pc = "idle"
  /\ pass = NoPass
  /\ out = <<>>
  /\ passes = 0
  /\ last = NoLast
  /\ prev = NoPrev
  /\ moves = 0
  /\ ToolsIdle

Next == SyncStart \/ SyncRecord \/ SyncRecordThrows \/ UserMove

Spec == Init /\ [][Next]_vars

\* the pass in an environment where a font can fail to load
FailRecords == {RecA1, RecB, RecNoId}

InitFail ==
  /\ \E d \in {EmptyDoc, DocWithCards} : nodes = d.nodes /\ pageChildren = d.page
  /\ \E n \in 1..MaxShort, mappings \in RuleLists \ {<<>>}, templateId \in {1, TitleLayer} :
       \E data \in SeqsOfLen(FailRecords, n) :
         msg = [templateId |-> templateId, componentId |-> 1, data |-> data,
                mappings |-> mappings, idField |-> "id"]
  /\ pc = "idle"
  /\ pass = NoPass
  /\ out = <<>>
  /\ passes = 0
  /\ last = NoLast
  /\ prev = NoPrev
  /\ moves = 0
  /\ ToolsIdle

\* passes one after the other, nothing done by hand in between
NextFail == SyncStart \/ SyncRecord \/ SyncRecordThrows \/ SyncRecordFontFails

SpecFail == InitFail /\ [][NextFail]_vars

\* requests of every kind, those the handler rejects included; every await of
\* a started pass settles, so the handler goes on to its next step
InitLive ==
  /\ \E d \in {EmptyDoc, DocWithCards} : nodes = d.nodes /\ pageChildren = d.page
  /\ \E n \in 0..MaxShort, mappings \in RuleLists, templateId \in {1, TitleLayer, 99} :
       \E data \in SeqsOfLen(FailRecords, n) :
         /\ (mappings = <<>> \/ templateId = 99) => n <= 1
         /\ msg = [templateId |-> templateId, componentId |-> 1, data |-> data,
                   mappings |-> mappings, idField |-> "id"]
  /\ pc = "idle"
  /\ pass = NoPass
  /\ out = <<>>
  /\ passes = 0
  /\ last = NoLast
  /\ prev = NoPrev
  /\ moves = 0
  /\ ToolsIdle

PassStep == SyncRecord \/ SyncRecordThrows \/ SyncRecordFontFails

NextLive == SyncStart \/ PassStep

\* the end of an iteration of the record loop as the UI sees it: the progress
\* notification (with 'done' after the last record) or the 'error' of the
\* catch. Every step of PassStep is such a step and no other step of
\* NextLive is, and a running pass always has a next iteration, so weak
\* fairness on it says that a pass suspended at an await is resumed.
PostsNext ==
  /\ pc = "run"
  /\ out' \in {Append(out, "status"), out \o <<"status", "done">>, Caught(out)}

SpecLive == InitLive /\ [][NextLive]_vars /\ WF_out(PostsNext)

\* the selection tools and the pass: what the user has selected is part of
\* the initial state
RECURSIVE Subtree(_, _)
Subtree(ns, n) ==
  {n} \cup UNION {Subtree(ns, ns[n].children[k]) : k \in 1..Len(ns[n].children)}

PageNodes(d) == UNION {Subtree(d.nodes, d.page[k]) : k \in 1..Len(d.page)}

\* top-level nodes and tagged nodes can be selected, alone or two at a time
Selectable(d) ==
  {n \in PageNodes(d) : d.nodes[n].parent = 0 \/ d.nodes[n].notionId # <<>>}

Selections(d) ==
  {<<>>} \cup {<<n>> : n \in Selectable(d)}
    \cup {q \in Selectable(d) \X Selectable(d) : q[1] < q[2]}

SelectBatches ==
  { <<RecA1, RecB>>, <<RecA2, RecA1>>, <<RecB>>, <<RecNoId, RecZero>> }

SelectRuleLists ==
  { <<Rule("#box", "show", "text"), Rule("#title", "title", "text"), Rule("#note", "note", "text")>>,
    <<Rule("#missing", "title", "text"), Rule("#note", "title", "image")>> }

InitSelect ==
  /\ \E d \in {EmptyDoc, DocWithCards} :
       /\ nodes = d.nodes
       /\ pageChildren = d.page
       /\ selection \in Selections(d)
  /\ \E data \in SelectBatches, mappings \in SelectRuleLists, componentId \in {1, 99} :
       msg = [templateId |-> 1, componentId |-> componentId, data |-> data,
              mappings |-> mappings, idField |-> "id"]
  /\ pc = "idle"
  /\ pass = NoPass
  /\ out = <<>>
  /\ passes = 0
  /\ last = NoLast
  /\ prev = NoPrev
  /\ moves = 0
  /\ reply = NoReply
  /\ ops = 0

NextSelect ==
  SyncSelected \/ ReadInstanceId \/ UpdateInstanceId \/ SyncStart \/ SyncRecord

SpecSelect == InitSelect /\ [][NextSelect]_vars

\* the iteration of the record loop just done was suspended in loadFontAsync:
\* one of its elements has a text sublayer that a rule wrote to
SuspendedInFont ==
  /\ pc = "run"
  /\ last.op \in {"update", "insert"}
  /\ \E k \in 1..Len(last.elems), j \in 1..Len(msg.mappings) :
       /\ HasChildren(nodes[last.elems[k]])
       /\ ReachesFont(nodes, last.elems[k], msg.data[last.i + 1], msg.mappings[j])

\* update-instance-id dispatched while a pass is suspended at an await: the
\* dispatcher is an async function that handles every inbound message when it
\* arrives, and this handler runs to its end without suspending. It touches
\* the tag of the selected node only, which the suspended iteration neither
\* reads nor writes, so it is taken here once that iteration is done.
UpdateInstanceIdAtAwait ==
  /\ SuspendedInFont
  /\ ops < MaxOps
  /\ ops' = ops + 1
  /\ \E newId \in NewIds :
       IF selection = <<>> \/ newId = <<>> \/ Trim(newId) = <<>>
         THEN /\ out' = Append(out, "error")
              /\ reply' = [type |-> "error"]
              /\ nodes' = nodes
         ELSE /\ out' = Append(out, "id-updated")
              /\ reply' = [type |-> "id-updated"]
              /\ nodes' = [nodes EXCEPT ![selection[1]].notionId = StoredId(newId)]
  /\ UNCHANGED <<pageChildren, msg, pc, pass, passes, last, prev, moves, selection>>

InitOverlap ==
  /\ nodes = DocWithCards.nodes
  /\ pageChildren = DocWithCards.page
  /\ selection \in {<<>>} \cup {<<n>> : n \in Selectable(DocWithCards)}
  /\ \E data \in SelectBatches, mappings \in SelectRuleLists :
       msg = [templateId |-> 1, componentId |-> 1, data |-> data,
              mappings |-> mappings, idField |-> "id"]
  /\ pc = "idle"
  /\ pass = NoPass
  /\ out = <<>>
  /\ passes = 0
  /\ last = NoLast
  /\ prev = NoPrev
  /\ moves = 0
  /\ reply = NoReply
  /\ ops = 0

NextOverlap == SyncStart \/ SyncRecord \/ UpdateInstanceIdAtAwait

SpecOverlap == InitOverlap /\ [][NextOverlap]_vars

\* the image tools on a document of cards; in DocImages the second card's box
\* is a group and holds a cache, the first card's cache is unparsable
DocImages ==
  [nodes |-> [DocWithCards.nodes EXCEPT
                ![5].imgUrls = Corrupt,
                ![9].imgUrls = Json({<<"#box", "u0">>, <<"#logo", "u9">>}),
                ![10].type = "GROUP"],
   page |-> DocWithCards.page]

InitImage ==
  /\ \E d \in {DocWithCards, DocImages} : nodes = d.nodes /\ pageChildren = d.page
  /\ msg = [templateId |-> 1, componentId |-> 1, data |-> <<RecA1>>,
            mappings |-> InitRules, idField |-> "id"]
  /\ pc = "idle"
  /\ pass = NoPass
  /\ out = <<>>
  /\ passes = 0
  /\ last = NoLast
  /\ prev = NoPrev
  /\ moves = 0
  /\ ToolsIdle

NextImage == SetImage \/ GetImageUrls

SpecImage == InitImage /\ [][NextImage]_vars

\* image requests that arrive before or after the pass that creates the
\* elements they name
InitLate ==
  /\ nodes = EmptyDoc.nodes
  /\ pageChildren = EmptyDoc.page
  /\ \E data \in {<<RecA1, RecB>>, <<RecNoId>>} :
       msg = [templateId |-> 1, componentId |-> 1, data |-> data,
              mappings |-> InitRules, idField |-> "id"]
  /\ pc = "idle"
  /\ pass = NoPass
  /\ out = <<>>
  /\ passes = 0
  /\ last = NoLast
  /\ prev = NoPrev
  /\ moves = 0
  /\ ToolsIdle

NextLate == SetImage \/ SyncStart \/ SyncRecord

SpecLate == InitLate /\ [][NextLate]_vars

\* the page with cards before any image request, and after the request that
\* put image 1 of url "u1" on the box of every card tagged "a"
DocWithImage ==
  [nodes |-> SetImageEach(DocWithCards.nodes,
                          MapGet(buildExistingMap(DocWithCards.nodes, DocWithCards.page), S_a),
                          "#box", 1, "u1"),
   page |-> DocWithCards.page]

InitCache ==
  /\ \E d \in {DocWithCards, DocWithImage} : nodes = d.nodes /\ pageChildren = d.page
  /\ selection \in {<<>>} \cup {<<n>> : n \in Selectable(DocWithCards)}
  /\ msg = [templateId |-> 1, componentId |-> 1, data |-> <<RecA1, RecB>>,
            mappings |-> InitRules, idField |-> "id"]
  /\ pc = "idle"
  /\ pass = NoPass
  /\ out = <<>>
  /\ passes = 0
  /\ last = NoLast
  /\ prev = NoPrev
  /\ moves = 0
  /\ reply = NoReply
  /\ ops = 0

NextCache == SetImage \/ UpdateInstanceId \/ GetImageUrls \/ SyncStart \/ SyncRecord

SpecCache == InitCache /\ [][NextCache]_vars

\* template discovery: a variant group of two components on the page, an
\* instance of each, a component of its own with an instance, a frame, a text
\* and an instance whose main component is gone
DocVariants ==
  LET v0 == << NewNode("COMPONENT_SET", "CardSet", 0, <<2, 5>>),
               NewNode("COMPONENT", "Style=A", 1, <<3, 4>>),
               NewNode("TEXT", "#title", 2, <<>>),
               NewNode("TEXT", "plain", 2, <<>>),
               NewNode("COMPONENT", "Style=B", 1, <<6>>),
               NewNode("TEXT", "#title", 5, <<>>) >>
      v1 == [Instantiate(v0, 2) EXCEPT ![7].parent = 0]
      v2 == [Instantiate(v1, 5) EXCEPT ![10].parent = 0]
      v3 == v2 \o << NewNode("COMPONENT", "Solo", 0, <<13>>),
                     NewNode("TEXT", "#solo", 12, <<>>) >>
      v4 == [Instantiate(v3, 12) EXCEPT ![14].parent = 0]
      v5 == v4 \o << NewNode("FRAME", "Frame", 0, <<>>),
                     NewNode("TEXT", "Loose", 0, <<>>),
                     NewNode("INSTANCE", "Orphan", 0, <<>>) >>
  IN [nodes |-> v5, page |-> <<1, 7, 10, 12, 14, 16, 17, 18>>]

\* any node of the page can be selected, alone or two at a time
LayerSelections(d) ==
  {<<>>} \cup {<<n>> : n \in PageNodes(d)}
    \cup {q \in PageNodes(d) \X PageNodes(d) : q[1] # q[2]}

InitLayers ==
  /\ \E d \in {DocVariants, DocWithCards} :
       /\ nodes = d.nodes
       /\ pageChildren = d.page
       /\ selection \in LayerSelections(d)
  /\ msg = [templateId |-> 1, componentId |-> 1, data |-> <<RecA1>>,
            mappings |-> InitRules, idField |-> "id"]
  /\ pc = "idle"
  /\ pass = NoPass
  /\ out = <<>>
  /\ passes = 0
  /\ last = NoLast
  /\ prev = NoPrev
  /\ moves = 0
  /\ reply = NoReply
  /\ ops = 0

NextLayers == GetComponentLayers

SpecLayers == InitLayers /\ [][NextLayers]_vars

\* a frame on the page used as template, its root named with or without '#';
\* the layers are listed, then a pass inserts elements copied from it
DocFrame(rootName) ==
  [nodes |-> [TemplateNodes("FRAME", 0) EXCEPT ![1].name = rootName], page |-> <<1>>]

AgreeRuleLists ==
  {<<Rule(name, "show", "text")>> : name \in {"#solo", "#box", "#title", "#note"}}
    \cup {<<Rule("#note", "note", "text"), Rule("#solo", "title", "text")>>}

InitAgree ==
  /\ \E rootName \in {"Card", "#solo"} :
       /\ nodes = DocFrame(rootName).nodes
       /\ pageChildren = DocFrame(rootName).page
  /\ selection \in {<<>>, <<1>>, <<2>>}
  /\ \E record \in {RecA1, RecA2, RecNoId, RecZero}, mappings \in AgreeRuleLists :
       msg = [templateId |-> 1, componentId |-> 1, data |-> <<record>>,
              mappings |-> mappings, idField |-> "id"]
  /\ pc = "idle"
  /\ pass = NoPass
  /\ out = <<>>
  /\ passes = 0
  /\ last = NoLast
  /\ prev = NoPrev
  /\ moves = 0
  /\ reply = NoReply
  /\ ops = 0

NextAgree == GetComponentLayers \/ SyncStart \/ SyncRecord

SpecAgree == InitAgree /\ [][NextAgree]_vars

\* sync-mapped-data run to its end as a function of the document: the record
\* loop from iteration p.i on, with the index and the origin of the start
RECURSIVE SyncLoop(_, _, _, _)
SyncLoop(ns, page, p, m) ==
  IF p.i = Len(m.data) THEN [nodes |-> ns, page |-> page]
  ELSE LET i == p.i
           record == m.data[i + 1]
           key == recordId(record, m.idField, i)
           existingNodes == MapGet(p.existingMap, key)
           instance == Len(ns) + 1
           x == GridX(p.newIndex, p.cardWidth)
           y == GridY(p.newIndex, p.cardHeight, p.startY)
       IN IF existingNodes # <<>>
            THEN SyncLoop(UpdateAll(ns, existingNodes, record, m.mappings), page,
                          [p EXCEPT !.i = i + 1], m)
          ELSE IF FillThrows(ns, p.templateNode, m.mappings)
            THEN [nodes |-> InsertShell(ns, p.templateNode, x, y, key, m.componentId),
                  page |-> Append(page, instance)]
          ELSE SyncLoop(InsertInstance(ns, p.templateNode, x, y, key, m.componentId,
                                       record, m.mappings),
                        Append(page, instance),
                        [p EXCEPT !.newIndex = @ + 1, !.i = i + 1], m)

\* the whole handler: validation, template, index, origin, then the loop
SyncMappedData(ns, page, m) ==
  LET targetSourceId == IF m.templateId # 0 THEN m.templateId ELSE m.componentId
      templateNode == getNodeById(ns, targetSourceId)
  IN IF Len(m.data) = 0 \/ Len(m.mappings) = 0 \/ templateNode = 0
       THEN [nodes |-> ns, page |-> page]
       ELSE SyncLoop(ns, page,
              [NoPass EXCEPT
                 !.templateNode = templateNode,
                 !.existingMap = buildExistingMap(ns, page),
                 !.startY = getNextAvailableY(ns, page),
                 !.cardWidth = IF HasSize(ns[templateNode])
                                 THEN ns[templateNode].width ELSE DEFAULT_SIZE,
                 !.cardHeight = IF HasSize(ns[templateNode])
                                  THEN ns[templateNode].height ELSE DEFAULT_SIZE], m)

\* a document left by an earlier pass over records without identifier: its
\* cards carry the tags "row-0" (title "7") and "row-1" (title "A")
DocWithRows ==
  SyncMappedData(EmptyDoc.nodes, EmptyDoc.page,
                 [templateId |-> 0, componentId |-> 1, data |-> <<RecZero, RecNoId>>,
                  mappings |-> InitRules, idField |-> "id"])

EquivBatches ==
  { <<RecA2, RecA1>>, <<RecA1, RecB>>, <<RecNoId, RecZero>> }

\* sync-selected and the pass on the same documents, with the same request:
\* both resolve the template from componentId
InitEquiv ==
  /\ \E d \in {DocWithCards, DocWithRows} :
       /\ nodes = d.nodes
       /\ pageChildren = d.page
       /\ selection \in Selections(d)
  /\ \E data \in EquivBatches, mappings \in SelectRuleLists :
       msg = [templateId |-> 0, componentId |-> 1, data |-> data,
              mappings |-> mappings, idField |-> "id"]
  /\ pc = "idle"
  /\ pass = NoPass
  /\ out = <<>>
  /\ passes = 0
  /\ last = NoLast
  /\ prev = NoPrev
  /\ moves = 0
  /\ reply = NoReply
  /\ ops = 0

NextEquiv == SyncSelected \/ SyncStart \/ SyncRecord

SpecEquiv == InitEquiv /\ [][NextEquiv]_vars

\* ------------------------------------------------- properties of the pass
\* n is in the current page's tree
RECURSIVE InPage(_, _)
InPage(ns, n) ==
  IF ns[n].parent = 0 THEN TRUE
  ELSE IF ns[n].parent < 0 THEN FALSE
  ELSE InPage(ns, ns[n].parent)

\* the nodes of the page's tree tagged with key
Tagged(ns, key) == {n \in 1..Len(ns) : ns[n].notionId = key /\ InPage(ns, n)}

\* the nodes tagged with key when the running (or last) pass started
TaggedAtStart(key) == {n \in Tagged(nodes, key) : n <= pass.startLen}

SeqToSet(q) == {q[k] : k \in 1..Len(q)}

StepDone == last.op \in {"update", "insert"}
LastRecord == msg.data[last.i + 1]

Geometry(n) == <<n.x, n.y, n.width, n.height>>
Identity(n) == <<n.parent, n.notionId, n.sourceComponentId, n.type, n.name, n.children>>
Content(n) == <<n.visible, n.characters, n.listType>>

\* C1: a step of the pass that takes the update path leaves the position, size,
\* parent and both tags of every matched element as they were, adds and removes
\* no node, and changes nothing but visibility and text of any node.
C1_PositionPreserved ==
  [][last'.op = "update" =>
       /\ \A k \in 1..Len(last'.elems) :
            /\ Geometry(nodes'[last'.elems[k]]) = Geometry(nodes[last'.elems[k]])
            /\ Identity(nodes'[last'.elems[k]]) = Identity(nodes[last'.elems[k]])
       /\ Len(nodes') = Len(nodes)
       /\ pageChildren' = pageChildren
       /\ \A n \in 1..Len(nodes) :
            Geometry(nodes'[n]) = Geometry(nodes[n]) /\ Identity(nodes'[n]) = Identity(nodes[n])]_vars

\* an element dragged away by hand was matched and its title rewritten in place
C1_Witness ==
  /\ last.op = "update"
  /\ \E k \in 1..Len(last.elems) :
       LET e == last.elems[k]
       IN /\ <<nodes[e].x, nodes[e].y>> \in MovePlaces
          /\ HasChildren(nodes[e])
          /\ \E t \in 1..Len(nodes) :
               /\ nodes[t].parent = e \/ (nodes[t].parent > 0 /\ nodes[nodes[t].parent].parent = e)
               /\ nodes[t].type = "TEXT"
               /\ prev.done /\ Len(prev.nodes) >= t
               /\ nodes[t].characters # prev.nodes[t].characters

RECURSIVE SumOver(_, _)
SumOver(S, f) ==
  IF S = {} THEN 0
  ELSE LET e == CHOOSE x \in S : TRUE IN f[e] + SumOver(S \ {e}, f)

BatchKeys == {recordId(msg.data[j + 1], msg.idField, j) : j \in 0..(Len(msg.data) - 1)}
DistinctKeys == Cardinality(BatchKeys) = Len(msg.data)

\* a pass has just completed that repeated the previous pass with nothing in between
RepeatDone == pc = "idle" /\ StepDone /\ prev.done /\ prev.untouched /\ prev.repeat

SameAsFirstRun ==
  /\ Len(prev.nodes) = Len(prev.firstNodes)
  /\ \A n \in 1..Len(prev.firstNodes) :
       /\ Content(prev.nodes[n]) = Content(prev.firstNodes[n])
       /\ prev.nodes[n].notionId = prev.firstNodes[n].notionId

ExpectedUpdates ==
  SumOver(BatchKeys, [k \in BatchKeys |-> Cardinality(Tagged(prev.firstNodes, k))])

\* C2: the second of two identical passes in a row leaves the tagged elements and
\* their visibility and text as the first left them, creates nothing and reports
\* as many updates as there are elements carrying the identifiers of the batch.
C2_Idempotent ==
  RepeatDone =>
    /\ SameAsFirstRun
    /\ prev.createdCount = 0
    /\ prev.updatedCount = ExpectedUpdates

\* the same, for batches whose keys are pairwise distinct
C2_IdempotentDistinctKeys == (RepeatDone /\ DistinctKeys) => C2_Idempotent

\* C3: after a completed pass every key of the batch that no element carried when
\* the pass started is carried by exactly one element.
C3_OneElementPerIdentifier ==
  (pc = "idle" /\ StepDone) =>
    \A k \in BatchKeys :
      TaggedAtStart(k) = {} => Cardinality(Tagged(nodes, k)) = 1

\* the same, for batches whose keys are pairwise distinct
C3_OneElementPerDistinctKey == DistinctKeys => C3_OneElementPerIdentifier

\* C4: a record whose key is carried by N >= 1 elements at pass start is applied
\* to each of them, adds N to updatedCount, nothing to createdCount, and creates
\* no element.
C4_DuplicatesUpdated ==
  [][(pc = "run" /\ TaggedAtStart(recordId(msg.data[pass.i + 1], msg.idField, pass.i)) # {}) =>
       LET key == recordId(msg.data[pass.i + 1], msg.idField, pass.i)
           record == msg.data[pass.i + 1]
           N == Cardinality(TaggedAtStart(key))
       IN /\ last'.op = "update"
          /\ SeqToSet(last'.elems) = TaggedAtStart(key)
          /\ Len(last'.elems) = N
          /\ pass'.updatedCount = pass.updatedCount + N
          /\ pass'.createdCount = pass.createdCount
          /\ Len(nodes') = Len(nodes)
          /\ pageChildren' = pageChildren
          /\ \A e \in TaggedAtStart(key) :
               updateInstance(nodes', e, record, msg.mappings) = nodes']_vars

\* two cards and a text carry the key; all three are counted and the cards differ
\* from what they were
C4_Witness ==
  /\ last.op = "update"
  /\ Len(last.elems) >= 3
  /\ pass.updatedCount >= 3
  /\ \E k \in 1..Len(last.elems) : HasChildren(nodes[last.elems[k]])

NoIdentifier(record) == ~Truthy(Get(record, msg.idField))

\* C5 as claimed: a record without identifier always takes the insert path.
C5_PlaceholderAlwaysInserted ==
  (StepDone /\ NoIdentifier(LastRecord)) => last.op = "insert"

\* C5 as amended: a record without identifier gets the key "row-" + i and is then
\* treated like any other key: inserted (and tagged "row-" + i) exactly when no
\* element carried that key at pass start, hence updated in a repeated pass.
C5_PlaceholderKeyedByPosition ==
  (StepDone /\ NoIdentifier(LastRecord)) =>
    /\ last.key = RowKey(last.i)
    /\ (last.op = "insert") <=> (TaggedAtStart(RowKey(last.i)) = {})
    /\ last.op = "insert" => nodes[last.elems[1]].notionId = RowKey(last.i)
    /\ passes >= 2 => last.op = "update"

C5_Witness ==
  /\ StepDone /\ NoIdentifier(LastRecord)
  /\ passes = 2
  /\ last.op = "update"
  /\ last.i = 1

Overlap(a, b) ==
  /\ a.x < b.x + b.width /\ b.x < a.x + a.width
  /\ a.y < b.y + b.height /\ b.y < a.y + a.height

\* C6: in a pass that started on an empty page the j-th inserted element
\* (j from 0) is at x = (j mod 4) * (width + 20), y = (j div 4) * (height + 20),
\* has the template's size, and no two inserted elements overlap.
C6_Grid ==
  (last.op = "insert" /\ pass.startPage = <<>>) =>
    LET template == nodes[pass.templateNode] IN
    /\ Len(pageChildren) = pass.i
    /\ \A k \in 1..Len(pageChildren) :
         LET e == nodes[pageChildren[k]]
             j == k - 1
         IN /\ e.x = (j % 4) * (template.width + 20)
            /\ e.y = (j \div 4) * (template.height + 20)
            /\ e.width = template.width /\ e.height = template.height
            /\ e.parent = 0
    /\ \A k1, k2 \in 1..Len(pageChildren) :
         k1 # k2 => ~Overlap(nodes[pageChildren[k1]], nodes[pageChildren[k2]])
    /\ Cardinality({nodes[pageChildren[k]].y : k \in 1..Len(pageChildren)})
         = (Len(pageChildren) + 3) \div 4
    /\ \A y \in {nodes[pageChildren[k]].y : k \in 1..Len(pageChildren)} :
         Cardinality({k \in 1..Len(pageChildren) : nodes[pageChildren[k]].y = y}) <= 4

\* a second row has been started
C6_Witness ==
  /\ last.op = "insert" /\ pass.startPage = <<>>
  /\ Len(pageChildren) >= 5
  /\ nodes[pageChildren[5]].y > 0

\* C7: every inserted element has its top edge at or below the bottom edge of
\* every top-level element that was there when the pass started, and overlaps
\* none of them.
C7_BelowExisting ==
  last.op = "insert" =>
    \A k \in 1..Len(pass.startPage) :
      LET old == nodes[pass.startPage[k]]
          new == nodes[last.elems[1]]
      IN new.y >= old.y + old.height /\ ~Overlap(new, old)

C7_Witness ==
  /\ last.op = "insert"
  /\ \E k \in 1..Len(pass.startPage) :
       /\ nodes[pass.startPage[k]].y + nodes[pass.startPage[k]].height > 0
       /\ nodes[pass.startPage[k]].x < nodes[last.elems[1]].x + nodes[last.elems[1]].width
       /\ nodes[last.elems[1]].x < nodes[pass.startPage[k]].x + nodes[pass.startPage[k]].width

\* ------------------------------------------------- the field applier alone
\* fillInstanceData on one card, one mapping per step, for records whose values
\* range over FillValues
W(str) == Str(str)

FillValues ==
  { Bool(TRUE), Bool(FALSE), Num(0), Num(1), Num(-3), Num(12), Null,
    W(<<"y", "e", "s">>), W(<<"C", "h", "e", "c", "k", "e", "d">>), W(<<"T", "R", "U", "E">>),
    W(<<"O", "k">>), W(<<"1">>), W(<<"n", "o">>), W(<<>>), W(<<"0">>),
    W(<<"u", "n", "c", "h", "e", "c", "k", "e", "d">>), W(<<"N", "U", "L", "L">>),
    W(<<"F", "a", "l", "s", "e">>), W(<<"Q", "&", "A">>), W(<<"n", "o", "n", "e">>),
    W(<<" ", "n", "o", " ">>), W(<<" ", " ">>), W(<<TAB, "Y", "e", "s">>), W(<<"n", "o", NL>>),
    W(S_list), W(<<"A", NL, "B">>), W(<<"1", ".", " ", "A", NL, "B">>),
    W(<<"A", NL, "2", ".", " ", "B">>), W(<<"1", "2", ".", TAB, "A", NL, "3", ".", " ", " ", "B">>),
    W(<<"1", ".", "A">>), W(<<".", " ", "A">>), W(<<"1", " ", "A">>),
    W(<<"7", ".", " ", "x", NL, NL, "8", ".", " ", "9", ".", " ", "y">>) }

ShowValues == {Bool(FALSE), Bool(TRUE), W(<<"N", "o">>), Null}

FillRuleLists ==
  { <<Rule("#title", "title", "text")>>,
    <<Rule("#title", "title", "image"), Rule("#note", "note", "text")>>,
    <<Rule("#box", "show", "text"), Rule("#title", "title", "text"), Rule("#note", "note", "text")>>,
    <<Rule("#box", "title", "image"), Rule("#note", "show", "text")>>,
    <<Rule("#missing", "title", "text"), Rule("#title", "ghost", "text"),
      Rule("#note", "title", "text")>>,
    <<Rule("#title", "title", "text"), Rule("#title", "show", "text")>>,
    <<Rule("#title", "note", "text"), Rule("#title", "title", "text")>> }

S_old == <<"o", "l", "d">>
\* the card is the first copy of the template: its root, box, title and note
Card == Len(TemplateNodes("COMPONENT", -1)) + 1
CardBox == Card + 1
CardTitle == Card + 2
CardNote == Card + 3

FreshCard ==
  InsertInstance(TemplateNodes("COMPONENT", -1), 1, 0, 0, S_a, 1, [title |-> W(S_old)], InitRules)

\* the same card after a numbered title was written and the title then hidden
UsedCard ==
  LET n1 == fillInstanceData(FreshCard, Card, [title |-> W(<<"4", ".", " ", "X">>)], InitRules)
  IN fillInstanceData(n1, Card, [title |-> Bool(FALSE)], InitRules)

InitFill ==
  /\ nodes \in {FreshCard, UsedCard}
  /\ pageChildren = <<Card>>
  /\ \E title \in FillValues, show \in ShowValues, mappings \in FillRuleLists :
       msg = [templateId |-> 1, componentId |-> 1, mappings |-> mappings, idField |-> "id",
              data |-> << [id |-> W(S_a), title |-> title, show |-> show, note |-> W(<<"n", "2">>)] >>]
  /\ pc = "fill"
  /\ pass = [NoPass EXCEPT !.affectedNodes = <<Card>>]
  /\ out = <<>>
  /\ passes = 0
  /\ last = NoLast
  /\ prev = NoPrev
  /\ moves = 0
  /\ ToolsIdle

FillRuleBackwards ==
  /\ pc = "fill"
  /\ LET j == pass.i + 1
         back == Len(msg.mappings) - pass.i
         instance == pass.affectedNodes[1]
     IN /\ nodes' = ApplyMapping(nodes, instance, msg.data[1], msg.mappings[back])
        /\ pass' = [pass EXCEPT !.i = j]
        /\ last' = [op |-> "rule", i |-> j, key |-> <<>>,
                    elems |-> <<findChildByName(nodes, instance, msg.mappings[back].layerName)>>]
        /\ pc' = IF j = Len(msg.mappings) THEN "filled" ELSE "fill"
  /\ UNCHANGED <<pageChildren, msg, out, passes, prev, moves, selection, reply, ops>>

\* one iteration of the loop of fillInstanceData on the card
FillRule ==
  /\ pc = "fill"
  /\ LET j == pass.i + 1
         instance == pass.affectedNodes[1]
     IN /\ nodes' = ApplyMapping(nodes, instance, msg.data[1], msg.mappings[j])
        /\ pass' = [pass EXCEPT !.i = j]
        /\ last' = [op |-> "rule", i |-> j, key |-> <<>>,
                    elems |-> <<findChildByName(nodes, instance, msg.mappings[j].layerName)>>]
        /\ pc' = IF j = Len(msg.mappings) THEN "filled" ELSE "fill"
  /\ UNCHANGED <<pageChildren, msg, out, passes, prev, moves, selection, reply, ops>>

NextFill == FillRule

SpecFill == InitFill /\ [][NextFill]_vars

\* the rule just applied, its value and its target (0: no such layer)
LastRule == msg.mappings[last.i]
LastValue == Get(msg.data[1], LastRule.dataField)
LastTarget == last.elems[1]
Present(val) == val.t \notin {"null", "undefined"}
RuleActed == last.op = "rule" /\ LastTarget # 0 /\ Present(LastValue)

\* the coercion as C8 words it: strings compared case-insensitively
CoerceAsClaimed(val) ==
  CASE val.t = "bool" -> val.v
    [] val.t = "num" -> val.v # 0
    [] val.t = "str" ->
         IF ToLowerCase(val.v) \in TrueWords THEN TRUE
         ELSE IF ToLowerCase(val.v) \in FalseWords THEN FALSE
         ELSE val.v # <<>>

\* the same, with surrounding whitespace removed before the comparison
CoerceTrimmed(val) ==
  CASE val.t = "bool" -> val.v
    [] val.t = "num" -> val.v # 0
    [] val.t = "str" ->
         IF Trim(ToLowerCase(val.v)) \in TrueWords THEN TRUE
         ELSE IF Trim(ToLowerCase(val.v)) \in FalseWords THEN FALSE
         ELSE TRUE

\* C8 as claimed: the target's visibility is the coerced value, a string being
\* compared case-insensitively with the two word lists and any other non-empty
\* string being true.
C8_Coercion ==
  RuleActed => nodes[LastTarget].visible = CoerceAsClaimed(LastValue)

\* C8 as amended: the string is trimmed of surrounding whitespace before it is
\* compared, so a padded false word or a blank string hides the layer.
C8_CoercionTrimmed ==
  RuleActed => nodes[LastTarget].visible = CoerceTrimmed(LastValue)

\* a padded "no" hid a layer under a rule of kind image
C8_Witness ==
  /\ RuleActed
  /\ LastValue = W(<<" ", "n", "o", " ">>)
  /\ LastRule.dataType = "image"
  /\ ~nodes[LastTarget].visible

\* the ends of the matches of digits, dot, whitespace at the start of line
MatchEnds(line) ==
  {m \in 3..Len(line) :
     \E d \in 1..(m - 2) :
       /\ \A k \in 1..d : IsDigit(line[k])
       /\ line[d + 1] = "."
       /\ \A k \in (d + 2)..m : line[k] \in Whitespace}
Numbered(line) == MatchEnds(line) # {}
\* line without its longest such prefix
Unnumbered(line) ==
  IF Numbered(line)
    THEN SubSeq(line, (CHOOSE m \in MatchEnds(line) : \A h \in MatchEnds(line) : h <= m) + 1, Len(line))
    ELSE line

TextWritten ==
  /\ RuleActed
  /\ nodes[LastTarget].type = "TEXT"
  /\ LastValue.t # "bool"
  /\ nodes[LastTarget].visible

\* C9 as claimed: the value is a numbered list only if every line begins with the
\* pattern; then all prefixes are stripped and the range is ORDERED, otherwise
\* the value is stored unchanged with list type NONE.
C9_ListWhenEveryLine ==
  TextWritten =>
    LET raw == String(LastValue)
        lines == SplitLines(raw)
        t == nodes[LastTarget]
    IN IF \A k \in 1..Len(lines) : Numbered(lines[k])
         THEN t.characters = JoinLines([k \in 1..Len(lines) |-> Unnumbered(lines[k])])
              /\ t.listType = "ORDERED"
         ELSE t.characters = raw /\ t.listType = "NONE"

\* C9 as amended: the value is a numbered list exactly when its first line begins
\* with the pattern; then the prefix is stripped from every line that has one,
\* the other lines are kept, and the range is ORDERED.
C9_ListWhenFirstLine ==
  TextWritten =>
    LET raw == String(LastValue)
        lines == SplitLines(raw)
        t == nodes[LastTarget]
    IN IF Numbered(lines[1])
         THEN t.characters = JoinLines([k \in 1..Len(lines) |-> Unnumbered(lines[k])])
              /\ t.listType = "ORDERED"
         ELSE t.characters = raw /\ t.listType = "NONE"

\* "1. A\nB" was stored as "A\nB", ORDERED
C9_Witness ==
  /\ TextWritten
  /\ LastValue = W(<<"1", ".", " ", "A", NL, "B">>)
  /\ nodes[LastTarget].characters = <<"A", NL, "B">>
  /\ nodes[LastTarget].listType = "ORDERED"

\* rule j is the last rule of the list that acts on its layer
ActsLast(j) ==
  /\ Present(Get(msg.data[1], msg.mappings[j].dataField))
  /\ findChildByName(nodes, Card, msg.mappings[j].layerName) # 0
  /\ \A h \in (j + 1)..Len(msg.mappings) :
       msg.mappings[h].layerName = msg.mappings[j].layerName
         => ~Present(Get(msg.data[1], msg.mappings[h].dataField))

\* C10: a rule whose value coerces to false hides its target and changes no text
\* and nothing else of any node, the loop goes on to the next rule, and when the
\* list is done every layer shows what the last rule acting on it gave it.
C10_HiddenKeepsContent ==
  /\ [][(pc = "fill"
          /\ findChildByName(nodes, Card, msg.mappings[pass.i + 1].layerName) # 0
          /\ Present(Get(msg.data[1], msg.mappings[pass.i + 1].dataField))
          /\ ~CoerceTrimmed(Get(msg.data[1], msg.mappings[pass.i + 1].dataField)))
        => LET t == findChildByName(nodes, Card, msg.mappings[pass.i + 1].layerName)
           IN /\ ~nodes'[t].visible
              /\ nodes' = [nodes EXCEPT ![t].visible = FALSE]
              /\ \A n \in 1..Len(nodes) : nodes'[n].characters = nodes[n].characters
              /\ pass'.i = pass.i + 1
              /\ pc' = IF pass.i + 1 < Len(msg.mappings) THEN "fill" ELSE "filled"]_vars
  /\ [](pc = "filled" =>
          \A j \in 1..Len(msg.mappings) :
            ActsLast(j) =>
              LET t == nodes[findChildByName(nodes, Card, msg.mappings[j].layerName)]
                  value == Get(msg.data[1], msg.mappings[j].dataField)
              IN /\ t.visible = CoerceTrimmed(value)
                 /\ (t.visible /\ t.type = "TEXT" /\ value.t # "bool")
                      => t.characters = JoinLines([k \in 1..Len(SplitLines(String(value))) |->
                                           IF Numbered(SplitLines(String(value))[1])
                                             THEN Unnumbered(SplitLines(String(value))[k])
                                             ELSE SplitLines(String(value))[k]]))

\* the box was hidden with its title inside, and the two rules after it were
\* applied: the title inside the hidden box and the note hold the new texts
C10_Witness ==
  /\ pc = "filled"
  /\ Len(msg.mappings) = 3
  /\ msg.data[1].show = Bool(FALSE)
  /\ ~nodes[CardBox].visible
  /\ msg.data[1].title = W(<<"Q", "&", "A">>)
  /\ nodes[CardTitle].characters = <<"Q", "&", "A">>
  /\ nodes[CardNote].characters = <<"n", "2">>

\* rule j of the list is skipped: its layer is not in the card, or the record
\* has no value (absent or null) for its field
Skipped(j) ==
  \/ findChildByName(nodes, Card, msg.mappings[j].layerName) = 0
  \/ ~Present(Get(msg.data[1], msg.mappings[j].dataField))

\* C11: a rule whose layer is missing from the element, or whose value is
\* absent or null, changes no node and posts nothing, the loop goes on to the
\* next rule, and when the list is done every rule after a skipped one that
\* was the last to act on its layer has set that layer's visibility.
C11_SkippedRuleNoOp ==
  /\ [][(pc = "fill" /\ Skipped(pass.i + 1))
        => /\ nodes' = nodes
           /\ out' = out
           /\ pass'.i = pass.i + 1
           /\ pc' = IF pass.i + 1 < Len(msg.mappings) THEN "fill" ELSE "filled"]_vars
  /\ [](pc = "filled" =>
          \A j \in 1..Len(msg.mappings), h \in 1..Len(msg.mappings) :
            (Skipped(j) /\ j < h /\ ActsLast(h)) =>
              nodes[findChildByName(nodes, Card, msg.mappings[h].layerName)].visible
                = CoerceTrimmed(Get(msg.data[1], msg.mappings[h].dataField)))

\* a rule for a missing layer and a rule for an absent field were skipped and
\* the rule after them wrote the note
C11_Witness ==
  /\ pc = "filled"
  /\ Len(msg.mappings) = 3
  /\ msg.mappings[1].layerName = "#missing"
  /\ Get(msg.data[1], msg.mappings[2].dataField) = Undefined
  /\ nodes[CardTitle].characters = S_old
  /\ msg.data[1].title = W(<<"Q", "&", "A">>)
  /\ nodes[CardNote].characters = <<"Q", "&", "A">>

\* --------------------------------------------------- errors of the pass
\* the request is answered with one error and the pass does not start: no
\* index, no record step, no 'done'
Rejected ==
  /\ pc # "run"
  /\ pass = NoPass
  /\ passes >= 1 => out = <<"error">>

\* C12 as claimed: a request with an empty record set, an empty rule set or no
\* identifier field is answered with an error and the pass never starts.
C12_InvalidRequestRejected ==
  (Len(msg.data) = 0 \/ Len(msg.mappings) = 0 \/ msg.idField = NoField) => Rejected

\* the part of C12 the handler does check: the record set and the rule set
C12_EmptyRequestRejected ==
  (Len(msg.data) = 0 \/ Len(msg.mappings) = 0) => Rejected

\* a request without identifier field ran to 'done' and tagged what it created
\* with placeholders
C12_MissingFieldRuns ==
  /\ msg.idField = NoField
  /\ prev.done
  /\ prev.createdCount > 0
  /\ "done" \in SeqToSet(out)

\* the kinds of node the plugin takes as a template
TemplateKinds == {"COMPONENT", "FRAME", "GROUP", "COMPONENT_SET"}

\* the node the request's template reference resolves to (0: none)
Resolved ==
  getNodeById(nodes, IF msg.templateId # 0 THEN msg.templateId ELSE msg.componentId)

\* C13 as claimed: when the template reference resolves to no node or to a node
\* of an unsupported kind, an error is reported, the pass never starts and no
\* element is created from that node.
C13_BadTemplateRejected ==
  (Resolved = 0 \/ nodes[Resolved].type \notin TemplateKinds)
    => (Rejected /\ last.op \notin {"insert", "update", "abort"})

\* the part of C13 the handler does check: a reference that resolves to no node
C13_MissingTemplateRejected ==
  Resolved = 0 => (Rejected /\ last.op \notin {"insert", "update", "abort"})

\* a request whose template is a text layer left a tagged copy of that layer
\* on the page before the error was reported
C13_TextTemplateCopied ==
  /\ last.op = "abort"
  /\ Resolved # 0
  /\ nodes[Resolved].type = "TEXT"
  /\ nodes[last.elems[1]].type = "TEXT"
  /\ nodes[last.elems[1]].notionId = last.key
  /\ last.elems[1] \in SeqToSet(pageChildren)

\* n is e or lies inside e
RECURSIVE Within(_, _, _)
Within(ns, n, e) ==
  IF n = e THEN TRUE
  ELSE IF ns[n].parent <= 0 THEN FALSE
  ELSE Within(ns, ns[n].parent, e)

\* C14: the step in which processing record i fails ends the pass with one
\* 'error' after the messages so far and no 'done'; it removes no node, keeps
\* the page's children, and leaves place, size, parent, tags and children of
\* every node and the visibility and text of every node outside the elements
\* of record i as the earlier records left them; while the pass stays aborted
\* no later record is processed.
C14_AbortKeepsEarlier ==
  /\ [][last'.op = "abort" =>
         /\ pc' = "idle"
         /\ out' = Append(out, "error")
         /\ Cardinality({k \in 1..Len(out') : out'[k] = "error"}) = 1
         /\ "done" \notin SeqToSet(out')
         /\ pass'.i = last'.i
         /\ Len(nodes') >= Len(nodes)
         /\ SubSeq(pageChildren', 1, Len(pageChildren)) = pageChildren
         /\ \A n \in 1..Len(nodes) :
              /\ Identity(nodes'[n]) = Identity(nodes[n])
              /\ Geometry(nodes'[n]) = Geometry(nodes[n])
              /\ Content(nodes'[n]) # Content(nodes[n])
                   => \E k \in 1..Len(last'.elems) : Within(nodes, n, last'.elems[k])]_vars
  /\ [](last.op = "abort" =>
          /\ pc = "idle"
          /\ pass.i = last.i
          /\ "done" \notin SeqToSet(out))

\* the second record failed in the fill of its new instance; the element made
\* for the first record is on the page with its tag, the failed one too
C14_Witness ==
  /\ last.op = "abort"
  /\ last.i = 1
  /\ Len(pageChildren) = Len(pass.startPage) + 2
  /\ HasChildren(nodes[last.elems[1]])
  /\ nodes[pageChildren[Len(pageChildren) - 1]].notionId = recordId(msg.data[1], msg.idField, 0)
  /\ nodes[last.elems[1]].notionId = last.key

\* a complete pass over a batch of distinct keys, with a template that has
\* sublayers, has just ended, and the pass before it was aborted
RerunDone ==
  /\ pc = "idle"
  /\ StepDone
  /\ prev.done
  /\ prev.afterAbort
  /\ DistinctKeys
  /\ HasChildren(nodes[pass.templateNode])

\* element e shows the content of record j: applying the record again changes
\* nothing
HoldsRecord(e, j) ==
  updateInstance(nodes, e, msg.data[j + 1], msg.mappings) = nodes

\* the elements that carried key before the aborted pass started
TaggedBeforeAbort(key) == {n \in Tagged(nodes, key) : n <= prev.startLen}

\* C15 as claimed: after the re-run exactly one element carries each key of the
\* batch and holds its record's content.
C15_OneElementEach ==
  RerunDone =>
    \A j \in 0..(Len(msg.data) - 1) :
      LET key == recordId(msg.data[j + 1], msg.idField, j)
      IN /\ Cardinality(Tagged(nodes, key)) = 1
         /\ \A e \in Tagged(nodes, key) : HoldsRecord(e, j)

\* C15 as amended: after the re-run each key of the batch is carried by the
\* elements that carried it before the aborted pass, or by exactly one new
\* element when there was none, each of them holds its record's content, and
\* the two passes left no other new element on the page.
C15_RerunConverges ==
  RerunDone =>
    /\ \A j \in 0..(Len(msg.data) - 1) :
         LET key == recordId(msg.data[j + 1], msg.idField, j)
         IN /\ TaggedBeforeAbort(key) # {} => Tagged(nodes, key) = TaggedBeforeAbort(key)
            /\ TaggedBeforeAbort(key) = {} => Cardinality(Tagged(nodes, key)) = 1
            /\ \A e \in Tagged(nodes, key) : HoldsRecord(e, j)
    /\ \A n \in (prev.startLen + 1)..Len(nodes) :
         nodes[n].parent = 0 => nodes[n].notionId \in BatchKeys

\* on an empty page the first pass inserted one record and failed in the fill
\* of the second; the re-run created nothing and updated both elements
C15_Witness ==
  /\ RerunDone
  /\ Len(msg.data) = 2
  /\ prev.startLen = Len(TemplateNodes("COMPONENT", -1))
  /\ Len(pageChildren) = 2
  /\ prev.createdCount = 0
  /\ prev.updatedCount = 2
  /\ nodes[pageChildren[2]].notionId = S_b
  /\ nodes[pageChildren[2] + 3].characters = <<"Q">>

\* ------------------------------------------ properties of the selection tools
\* some record of the request has an identifier equal to the tag
HasRecord(tag) ==
  \E j \in 1..Len(msg.data) :
    /\ Get(msg.data[j], msg.idField).t \notin {"undefined", "null"}
    /\ String(Get(msg.data[j], msg.idField)) = tag

\* the selected elements that carry a tag and have a record of that tag
Matched ==
  {n \in SeqToSet(selection) : nodes[n].notionId # <<>> /\ HasRecord(nodes[n].notionId)}

\* the tagged elements that are not selected
Unselected == {e \in 1..Len(nodes) : nodes[e].notionId # <<>> /\ e \notin SeqToSet(selection)}

IsTrimOf(t, s) ==
  /\ \E a \in 0..Len(s) :
       /\ a + Len(t) <= Len(s)
       /\ SubSeq(s, a + 1, a + Len(t)) = t
       /\ \A k \in (1..a) \cup ((a + Len(t) + 1)..Len(s)) : s[k] \in Whitespace
  /\ t # <<>> => (t[1] \notin Whitespace /\ t[Len(t)] \notin Whitespace)

Blank(s) == \A k \in 1..Len(s) : s[k] \in Whitespace

\* C20: update-instance-id with something selected and a newId that is not
\* blank makes the trimmed newId the tag of the first selected node and
\* changes nothing else of any node; with nothing selected or a blank newId it
\* reports an error and changes no node. read-instance-id on a selection whose
\* first node is tagged returns that tag. A record step of a pass whose key is
\* the tag of a node that was on the page when the pass started, re-tagged
\* ones included, updates that node and inserts nothing.
C20_RetagRoundTrip ==
  /\ [][last'.op = "update-id" =>
         IF selection # <<>> /\ ~Blank(last'.key)
           THEN /\ out' = <<"id-updated">>
                /\ IsTrimOf(nodes'[selection[1]].notionId, last'.key)
                /\ nodes' = [nodes EXCEPT ![selection[1]].notionId = nodes'[selection[1]].notionId]
           ELSE /\ out' = <<"error">>
                /\ nodes' = nodes]_vars
  /\ [][last'.op = "read-id" =>
         /\ nodes' = nodes
         /\ (selection # <<>> /\ nodes[selection[1]].notionId # <<>>)
              => /\ reply'.type = "instance-id-info"
                 /\ reply'.currentId = nodes[selection[1]].notionId]_vars
  /\ [][(pc = "run" /\ last'.op \in {"update", "insert"}) =>
         \A n \in 1..Len(nodes) :
           (n <= pass.startLen /\ InPage(nodes, n) /\ nodes[n].notionId = last'.key)
             => /\ last'.op = "update"
                /\ n \in SeqToSet(last'.elems)
                /\ Len(nodes') = Len(nodes)]_vars

\* the untagged frame was selected and given the id " a" + tab; it carries
\* "a", and the pass that followed updated it for the record of key "a"
C20_Witness ==
  /\ ops = 1
  /\ Len(selection) = 1
  /\ nodes[selection[1]].name = "Holder"
  /\ nodes[selection[1]].notionId = S_a
  /\ last.op = "update"
  /\ last.key = S_a
  /\ selection[1] \in SeqToSet(last.elems)
  /\ pass.createdCount = 0

\* ---------------------------------------------- properties of the image tools
\* the set-image request just handled
ImageValid ==
  /\ last'.key # <<>>
  /\ reply'.layerName # ""
  /\ reply'.image \notin {NoImage, BadImage}

\* the sublayer of element e the request names (0: none)
ImageTarget(e) ==
  IF HasChildren(nodes[e]) THEN findChildByName(nodes, e, reply'.layerName) ELSE 0

\* the image can be applied to element e
Applies(e) == ImageTarget(e) # 0 /\ HasFills(nodes[ImageTarget(e)])

\* C17: a set-image request with an identifier, a layer name and decodable
\* bytes sets the image as the fill of sublayer L of every element tagged k
\* that has a sublayer L able to take a fill; when a url comes with it the
\* cache of each of these elements maps L to the url and keeps its entries for
\* other layers (an unset or unparsable cache is replaced by the one entry);
\* the cache of an element the image was not applied to is not written, no
\* other node changes and nothing but fills and caches changes; a request
\* without identifier, layer name or decodable bytes changes nothing.
C17_ImageFanOut ==
  [][last'.op = "set-image" =>
       /\ Len(nodes') = Len(nodes)
       /\ pageChildren' = pageChildren
       /\ ~ImageValid => nodes' = nodes
       /\ ImageValid =>
            /\ \A e \in Tagged(nodes, last'.key) :
                 IF Applies(e)
                   THEN /\ nodes'[ImageTarget(e)].fills = reply'.image
                        /\ IF reply'.imageUrl = ""
                             THEN nodes'[e].imgUrls = nodes[e].imgUrls
                             ELSE /\ nodes'[e].imgUrls.state = "json"
                                  /\ {q \in nodes'[e].imgUrls.map : q[1] = reply'.layerName}
                                       = {<<reply'.layerName, reply'.imageUrl>>}
                                  /\ {q \in nodes'[e].imgUrls.map : q[1] # reply'.layerName}
                                       = IF nodes[e].imgUrls.state = "json"
                                           THEN {q \in nodes[e].imgUrls.map : q[1] # reply'.layerName}
                                           ELSE {}
                   ELSE nodes'[e].imgUrls = nodes[e].imgUrls
            /\ \A n \in 1..Len(nodes) :
                 /\ [nodes'[n] EXCEPT !.fills = nodes[n].fills, !.imgUrls = nodes[n].imgUrls]
                      = nodes[n]
                 /\ nodes'[n].fills # nodes[n].fills
                      => \E e \in Tagged(nodes, last'.key) : Applies(e) /\ n = ImageTarget(e)
                 /\ nodes'[n].imgUrls # nodes[n].imgUrls
                      => n \in Tagged(nodes, last'.key) /\ Applies(n)]_vars

\* of the two cards tagged "a" the first got the image on its box and a cache
\* of one entry in place of the unparsable one; the second, whose box is a
\* group, kept its fill and its cache
C17_Witness ==
  /\ last.op = "set-image"
  /\ last.key = S_a
  /\ reply.layerName = "#box"
  /\ reply.image = 2
  /\ nodes[6].fills = 2
  /\ nodes[5].imgUrls = Json({<<"#box", "u1">>})
  /\ nodes[10].type = "GROUP"
  /\ nodes[10].fills = 0
  /\ nodes[9].imgUrls = Json({<<"#box", "u0">>, <<"#logo", "u9">>})

\* the nodes of the page in document order: a node, then its subtree, then its
\* next sibling
RECURSIVE Preorder(_, _)
Preorder(ns, kids) ==
  IF kids = <<>> THEN <<>>
  ELSE <<Head(kids)>> \o Preorder(ns, ns[Head(kids)].children) \o Preorder(ns, Tail(kids))

\* the first node in document order that carries id (0: none)
FirstTagged(id) ==
  LET order == Preorder(nodes, pageChildren)
      hits == {k \in 1..Len(order) : nodes[order[k]].notionId = id}
  IN IF hits = {} THEN 0 ELSE order[CHOOSE k \in hits : \A h \in hits : k <= h]

\* C18: a get-image-urls request is answered with 'image-urls'; the answer
\* has entries for requested identifiers only, at most one each; for a
\* requested identifier whose first element in document order has a parsable
\* cache the entry is that cache, and an identifier that labels no element or
\* whose first element has no cache or an unparsable one has no entry.
C18_FirstElementCache ==
  last.op = "get-urls" =>
    /\ reply.type = "image-urls"
    /\ out = <<"image-urls">>
    /\ \A q \in reply.urls : q[1] \in SeqToSet(reply.asked)
    /\ \A id \in SeqToSet(reply.asked) :
         {q \in reply.urls : q[1] = id}
           = IF FirstTagged(id) # 0 /\ nodes[FirstTagged(id)].imgUrls.state = "json"
               THEN {<<id, nodes[FirstTagged(id)].imgUrls.map>>}
               ELSE {}

\* asked for "b", "a", "zz", "a": the card tagged "b" has a cache and is in
\* the answer; the first card tagged "a" has an unparsable cache and "a" is
\* absent although the second card tagged "a" has a cache; "zz" is absent
C18_Witness ==
  /\ last.op = "get-urls"
  /\ Len(reply.asked) = 4
  /\ reply.urls = {<<S_b, {<<"#title", "u2">>}>>}
  /\ nodes[5].imgUrls = Corrupt
  /\ nodes[9].imgUrls.state = "json"

\* ------------------------------------------- properties of template discovery
\* node is a component inside a variant group
IsVariant(n) ==
  /\ nodes[n].type = "COMPONENT"
  /\ nodes[n].parent > 0
  /\ nodes[nodes[n].parent].type = "COMPONENT_SET"

\* C19: for every node of the document, the lineage identifier of an instance
\* is that of its defining component, that of a component in a variant group
\* is the group's id, and that of any other node is its own id; two variants
\* of one group and their instances have the same lineage identifier; and
\* get-component-layers reports as componentId the lineage identifier of the
\* template behind the first selected node.
C19_LineageId ==
  /\ \A n \in 1..Len(nodes) :
       /\ (nodes[n].type = "INSTANCE" /\ nodes[n].mainComponent # 0)
            => getMappingId(nodes, n) = getMappingId(nodes, nodes[n].mainComponent)
       /\ IsVariant(n) => getMappingId(nodes, n) = nodes[n].parent
       /\ (~IsVariant(n) /\ ~(nodes[n].type = "INSTANCE" /\ nodes[n].mainComponent # 0))
            => getMappingId(nodes, n) = n
  /\ \A a \in 1..Len(nodes), b \in 1..Len(nodes) :
       (IsVariant(a) /\ IsVariant(b) /\ nodes[a].parent = nodes[b].parent)
         => /\ getMappingId(nodes, a) = getMappingId(nodes, b)
            /\ \A n \in 1..Len(nodes) :
                 (nodes[n].type = "INSTANCE" /\ nodes[n].mainComponent \in {a, b})
                   => getMappingId(nodes, n) = getMappingId(nodes, a)
  /\ (last.op = "get-layers" /\ reply.type = "component-layers")
       => reply.componentId = getMappingId(nodes, selection[1])

\* an instance of the second variant was selected: the reported componentId is
\* the group, the template is the variant, and the instance of the first
\* variant resolves to the same group
C19_Witness ==
  /\ last.op = "get-layers"
  /\ reply.type = "component-layers"
  /\ nodes[selection[1]].type = "INSTANCE"
  /\ nodes[reply.actualTemplateId].name = "Style=B"
  /\ nodes[reply.componentId].type = "COMPONENT_SET"
  /\ \E n \in 1..Len(nodes) :
       /\ nodes[n].type = "INSTANCE"
       /\ nodes[n].mainComponent # 0
       /\ nodes[nodes[n].mainComponent].name = "Style=A"
       /\ getMappingId(nodes, n) = reply.componentId

\* ------------------------------------------------------------ the index
\* the nodes tagged key of the document the pass started from, in document order
TaggedInOrder(key) ==
  SelectSeq(Preorder(nodes, pass.startPage), LAMBDA n : nodes[n].notionId = key)

\* C21: while a pass runs, the index it built when it started maps every
\* identifier to exactly the nodes of the page (top-level content and all
\* descendants) tagged with it at that moment, each once, in depth-first
\* pre-order; a node without a tag is listed under no identifier and no
\* identifier has an empty list.
C21_IndexComplete ==
  pc = "run" =>
    /\ \A key \in DOMAIN pass.existingMap :
         /\ key # <<>>
         /\ pass.existingMap[key] # <<>>
         /\ pass.existingMap[key] = TaggedInOrder(key)
         /\ \A a, b \in 1..Len(pass.existingMap[key]) :
              pass.existingMap[key][a] = pass.existingMap[key][b] => a = b
    /\ \A n \in 1..pass.startLen :
         InPage(nodes, n) =>
           IF nodes[n].notionId = <<>>
             THEN \A key \in DOMAIN pass.existingMap :
                    n \notin SeqToSet(pass.existingMap[key])
             ELSE n \in SeqToSet(MapGet(pass.existingMap, nodes[n].notionId))

\* a pass over the document with cards: "a" is carried by two top-level cards
\* and a text, "b" by a card nested in a frame; the untagged frame is absent
C21_Witness ==
  /\ pc = "run"
  /\ MapGet(pass.existingMap, S_a) = <<5, 9, 18>>
  /\ MapGet(pass.existingMap, S_b) = <<14>>
  /\ nodes[14].parent = 13
  /\ nodes[13].notionId = <<>>

\* ------------------------------------------------------------ the record loop
\* the step is an iteration of the record loop that did not throw
LoopStep == pc = "run" /\ last'.op \in {"update", "insert"}

\* the iteration took the update path: every indexed element of the key is
\* affected, nothing is added
TookUpdate(key) ==
  /\ MapGet(pass.existingMap, key) # <<>>
  /\ last'.op = "update"
  /\ last'.elems = MapGet(pass.existingMap, key)
  /\ Len(nodes') = Len(nodes)
  /\ pageChildren' = pageChildren
  /\ pass'.createdCount = pass.createdCount
  /\ pass'.updatedCount = pass.updatedCount + Len(last'.elems)

\* the iteration took the insert path: one element is added at the top level,
\* tagged with the key and the request's lineage identifier
TookInsert(key) ==
  /\ MapGet(pass.existingMap, key) = <<>>
  /\ last'.op = "insert"
  /\ Len(last'.elems) = 1
  /\ LET e == last'.elems[1]
     IN /\ e > Len(nodes)
        /\ e <= Len(nodes')
        /\ pageChildren' = Append(pageChildren, e)
        /\ nodes'[e].parent = 0
        /\ nodes'[e].notionId = key
        /\ nodes'[e].sourceComponentId = msg.componentId
        /\ \A n \in (Len(nodes) + 1)..Len(nodes') : Within(nodes', n, e)
  /\ pass'.createdCount = pass.createdCount + 1
  /\ pass'.updatedCount = pass.updatedCount

\* C22: in a pass that completes, every iteration of the record loop takes
\* the record at the loop's position and exactly one path, the update of all
\* indexed elements of its key or one insertion; no element that existed is
\* removed, moved in the tree or retagged; an added element is a top-level
\* child tagged with its record's key and the request's lineage identifier;
\* when the pass ends every record was taken once and createdCount is the
\* number of elements added to the page.
C22_EachRecordOnce ==
  [][LoopStep =>
       LET key == recordId(msg.data[pass.i + 1], msg.idField, pass.i)
       IN /\ last'.i = pass.i
          /\ last'.key = key
          /\ pass'.i = pass.i + 1
          /\ TookUpdate(key) \/ TookInsert(key)
          /\ ~(TookUpdate(key) /\ TookInsert(key))
          /\ Len(nodes') >= Len(nodes)
          /\ \A n \in 1..Len(nodes) : Identity(nodes'[n]) = Identity(nodes[n])
          /\ SubSeq(pageChildren', 1, Len(pageChildren)) = pageChildren
          /\ pc' = "idle" =>
               /\ pass'.i = Len(msg.data)
               /\ pass'.createdCount = Len(pageChildren') - Len(pass.startPage)
               /\ pass'.createdCount
                    = Cardinality({j \in 1..Len(msg.data) :
                        recordId(msg.data[j], msg.idField, j - 1)
                          \notin DOMAIN pass.existingMap})
               /\ \A k \in (Len(pass.startPage) + 1)..Len(pageChildren') :
                    /\ pageChildren'[k] > pass.startLen
                    /\ nodes'[pageChildren'[k]].sourceComponentId = msg.componentId
                    /\ \E j \in 1..Len(msg.data) :
                         nodes'[pageChildren'[k]].notionId
                           = recordId(msg.data[j], msg.idField, j - 1)
  ]_vars

\* a completed pass of two records over the document with cards: one record
\* updated the three elements of its key, the other was inserted
C22_Witness ==
  /\ pc = "idle"
  /\ StepDone
  /\ pass.i = 2
  /\ Len(msg.data) = 2
  /\ pass.updatedCount = 3
  /\ pass.createdCount = 1
  /\ Len(pageChildren) = Len(pass.startPage) + 1

\* ------------------------------------------------------------ the lookup key
\* the identifier field of the record is there and is not the empty string
IdentifierGiven(record) ==
  LET v == Get(record, msg.idField)
  IN v.t \notin {"undefined", "null"} /\ v # Str(<<>>)

\* C23: the lookup key of the record at position i is the string form of the
\* record's identifier-field value whenever that field is present and
\* non-empty, and the placeholder "row-" + i only when it is absent or empty.
C23_KeyIsIdentifier ==
  last.op \in {"update", "insert", "abort"} =>
    last.key = IF IdentifierGiven(LastRecord)
                 THEN String(Get(LastRecord, msg.idField))
                 ELSE RowKey(last.i)

\* what the code computes: the placeholder replaces every value that is falsy,
\* the number 0 and false included
C23_KeyIsTruthyIdentifier ==
  last.op \in {"update", "insert", "abort"} =>
    last.key = IF Truthy(Get(LastRecord, msg.idField))
                 THEN String(Get(LastRecord, msg.idField))
                 ELSE RowKey(last.i)

\* ------------------------------------------------------------ the insertion origin
\* the bottom edges of the top-level children
Bottoms == {nodes[pageChildren[k]].y + nodes[pageChildren[k]].height :
              k \in 1..Len(pageChildren)}
Lowest == CHOOSE b \in Bottoms : \A c \in Bottoms : c <= b
JustStarted == last.op = "start" /\ pc = "run"

\* C24 as claimed: the insertion origin is 0 for a page without top-level
\* content and otherwise the greatest y + height of the top-level children
\* plus two gaps, wherever the children are placed.
C24_OriginBelowLowest ==
  JustStarted =>
    pass.startY = IF pageChildren = <<>> THEN 0 ELSE Lowest + 2 * CARD_GAP

\* C24 as amended: the insertion origin is 0 when no top-level child has its
\* bottom edge below y = 0 (an empty page included) and otherwise the greatest
\* y + height plus two gaps.
C24_OriginClampedAtZero ==
  JustStarted =>
    pass.startY = IF \A b \in Bottoms : b <= 0 THEN 0 ELSE Lowest + 2 * CARD_GAP

\* a pass over a page whose only child ends above y = 0: the origin is 0
C24_Witness ==
  /\ JustStarted
  /\ pageChildren # <<>>
  /\ Lowest < 0
  /\ pass.startY = 0

\* ------------------------------------------------------------ rule order
\* the value and the target of rule j on the card
ValueOf(j) == Get(msg.data[1], msg.mappings[j].dataField)
TargetOf(j) == findChildByName(nodes, Card, msg.mappings[j].layerName)
\* rule j acts: its layer is in the card and its value is present
Acts(j) == TargetOf(j) # 0 /\ Present(ValueOf(j))
\* rule j writes text: it acts on a text layer with a value that is not a
\* boolean and coerces to true
Writes(j) ==
  /\ Acts(j)
  /\ nodes[TargetOf(j)].type = "TEXT"
  /\ ValueOf(j).t # "bool"
  /\ CoerceTrimmed(ValueOf(j))
\* the text a writing rule leaves: the value's string form, its lines without
\* their numbering when the first line is numbered
TextGiven(value) ==
  LET lines == SplitLines(String(value))
  IN JoinLines([k \in 1..Len(lines) |->
       IF Numbered(lines[1]) THEN Unnumbered(lines[k]) ELSE lines[k]])
\* rules j < h act on the same layer and no rule after h acts on it
LaterOfTwo(j, h) ==
  /\ j < h
  /\ msg.mappings[j].layerName = msg.mappings[h].layerName
  /\ Acts(j)
  /\ ActsLast(h)

\* C25 as claimed: rules are applied in list order, and when two rules with
\* present values target the same sublayer, the sublayer's visibility and
\* text after the application pass are those of the later rule's value.
C25_LaterRuleWins ==
  pc = "filled" =>
    \A j, h \in 1..Len(msg.mappings) :
      (LaterOfTwo(j, h) /\ nodes[TargetOf(h)].type = "TEXT" /\ ValueOf(h).t # "bool") =>
        /\ nodes[TargetOf(h)].visible = CoerceTrimmed(ValueOf(h))
        /\ nodes[TargetOf(h)].characters = TextGiven(ValueOf(h))

\* C25 as amended: the k-th step of the application pass applies the k-th
\* rule of the list and changes its target only; an acting rule sets the
\* target's visibility and leaves its text alone unless it writes text; so
\* when two rules with present values target the same sublayer, after the
\* pass the visibility is that of the later rule's value, and the text is
\* that of the last rule on the sublayer that wrote text, which is the
\* earlier rule when the later one hides the sublayer or carries a boolean.
C25_LaterRuleWinsVisibility ==
  /\ [][pc = "fill" =>
          LET k == pass.i + 1
              t == TargetOf(k)
          IN /\ pass'.i = k
             /\ last'.i = k
             /\ \A n \in 1..Len(nodes) : n # t => nodes'[n] = nodes[n]
             /\ Acts(k) =>
                  /\ nodes'[t].visible = CoerceTrimmed(ValueOf(k))
                  /\ nodes'[t].characters
                       = IF Writes(k) THEN TextGiven(ValueOf(k)) ELSE nodes[t].characters
     ]_vars
  /\ [](pc = "filled" =>
          \A j, h \in 1..Len(msg.mappings) :
            LaterOfTwo(j, h) =>
              /\ nodes[TargetOf(h)].visible = CoerceTrimmed(ValueOf(h))
              /\ Writes(h) => nodes[TargetOf(h)].characters = TextGiven(ValueOf(h))
              /\ (~Writes(h) /\ Writes(j) /\ h = j + 1) =>
                   nodes[TargetOf(h)].characters = TextGiven(ValueOf(j)))

\* the first rule wrote "Q&A" into the title, the second one hid the title
\* with the value "No": the title is hidden and still reads "Q&A"
C25_Witness ==
  /\ pc = "filled"
  /\ Len(msg.mappings) = 2
  /\ LaterOfTwo(1, 2)
  /\ ValueOf(1) = W(<<"Q", "&", "A">>)
  /\ ValueOf(2) = W(<<"N", "o">>)
  /\ ~nodes[CardTitle].visible
  /\ nodes[CardTitle].characters = <<"Q", "&", "A">>

\* ------------------------------------------------------------ messages of a pass
Statuses(n) == [k \in 1..n |-> "status"]
Terminals(messages) ==
  Cardinality({k \in 1..Len(messages) : messages[k] \in {"done", "error"}})

\* the messages posted for the request being handled or handled last: three
\* notifications before the loop, one after each record applied, then the
\* terminal message
MessagesInOrder ==
  /\ (pc = "run") => out = Statuses(3 + pass.i)
  /\ (pc = "idle" /\ last.op \in {"update", "insert"}) =>
       /\ pass.i = Len(msg.data)
       /\ out = Append(Statuses(3 + Len(msg.data)), "done")
  /\ (pc = "idle" /\ last.op = "abort") =>
       /\ last.i = pass.i
       /\ out = Append(Statuses(3 + last.i), "error")
  /\ (pc = "idle" /\ last.op = "start") => out = <<"error">>
  /\ Terminals(out) <= 1

\* C26: a sync request that is rejected posts 'error' and nothing else; a
\* pass posts one progress notification after each record it has applied and
\* none for a record it has not finished, 'done' only after the notifications
\* of all n records, 'error' when it aborts, never both; and every pass that
\* has started eventually ends with exactly one terminal message.
C26_OrderedAndTerminates ==
  /\ []MessagesInOrder
  /\ [][(pc = "run" /\ pc' = "run") =>
          (pass'.i = pass.i + 1 /\ out' = Append(out, "status"))]_vars
  /\ (pc = "run") ~> (pc = "idle" /\ Terminals(out) = 1)

\* a pass of two records that applied the first, posted its progress, and
\* aborted in the second: four notifications, then 'error'
C26_Witness ==
  /\ pc = "idle"
  /\ last.op = "abort"
  /\ last.i = 1
  /\ out = <<"status", "status", "status", "status", "error">>

\* ------------------------------------------------------------ one mutator
\* the key the suspended pass looks up next
NextKey == recordId(msg.data[pass.i + 1], msg.idField, pass.i)
\* no other message has been handled since the request arrived
Alone == ops = 0

DropsImage ==
  /\ ops' = ops + 1
  /\ reply'.type = "set-image"
  /\ reply'.notionId # <<>>
  /\ reply'.found = 0
\* no node has an image or a URL cache
NoImages ==
  \A n \in 1..Len(nodes) : nodes[n].fills = 0 /\ nodes[n].imgUrls = NoCache

\* C28: a set-image request whose identifier labels no element when it is
\* handled changes no node, no URL cache and no handler state and posts no
\* message, an error included; no later step applies it: a sync pass leaves
\* the images and caches of existing nodes alone and creates elements with
\* their template's fills and no cache, so after one dropped request and any
\* number of passes no node has an image or a cache.
C28_UnknownDropped ==
  /\ [][DropsImage =>
          /\ Tagged(nodes, reply'.notionId) = {}
          /\ nodes' = nodes
          /\ pageChildren' = pageChildren
          /\ out' = <<>>
          /\ <<pc, pass, passes, msg>>' = <<pc, pass, passes, msg>>]_vars
  /\ [][ops' = ops =>
          /\ \A n \in 1..Len(nodes) :
               nodes'[n].fills = nodes[n].fills /\ nodes'[n].imgUrls = nodes[n].imgUrls
          /\ \A n \in (Len(nodes) + 1)..Len(nodes') :
               nodes'[n].fills = 0 /\ nodes'[n].imgUrls = NoCache]_vars
  /\ []((ops = 1 /\ reply.type = "set-image" /\ reply.found = 0) => NoImages)

\* an image for the box of "a" arrived when the page was empty; a pass then
\* created the element of "a": its box has no image and it has no cache
C28_Witness ==
  /\ ops = 1
  /\ reply.type = "set-image"
  /\ reply.found = 0
  /\ reply.notionId = S_a
  /\ reply.layerName = "#box"
  /\ reply.image = 1
  /\ reply.imageUrl = "u1"
  /\ pc = "idle"
  /\ last.op = "insert"
  /\ \E n \in 1..Len(nodes) :
       /\ nodes[n].notionId = S_a
       /\ findChildByName(nodes, n, "#box") # 0
       /\ nodes[findChildByName(nodes, n, "#box")].fills = 0
       /\ nodes[n].imgUrls = NoCache

\* ------------------------------------------------------------ resolver and applier
\* the layers listed for the template of the request, and the element the
\* pass has just inserted
Listed ==
  reply.type = "component-layers" /\ reply.actualTemplateId = pass.templateNode
Inserted == last.elems[1]
\* rule j is the only rule of the request on its layer and the record has a
\* value for it
SoleRule(j) ==
  /\ Present(Get(LastRecord, msg.mappings[j].dataField))
  /\ \A h \in 1..Len(msg.mappings) :
       msg.mappings[h].layerName = msg.mappings[j].layerName => h = j
\* layer k of the list is found in the inserted element, and a sole rule that
\* names it has set the visibility of the node found
Agrees(k) ==
  LET name == reply.layers[k].name
      found == findChildByName(nodes, Inserted, name)
  IN /\ found # 0
     /\ nodes[found].name = name
     /\ nodes[found].type = reply.layers[k].type
     /\ \A j \in 1..Len(msg.mappings) :
          (msg.mappings[j].layerName = name /\ SoleRule(j)) =>
            nodes[found].visible
              = CoerceTrimmed(Get(LastRecord, msg.mappings[j].dataField))

\* C29: for a template whose layer names are pairwise distinct, every layer
\* that the resolver lists is found by the applier's name search in an element
\* created from the template, and a rule naming it with a present value
\* changes it.
C29_ResolverApplierAgree ==
  (last.op = "insert" /\ Listed) => \A k \in 1..Len(reply.layers) : Agrees(k)

\* what holds: the same for every listed layer except the template's root
C29_SublayersAgree ==
  (last.op = "insert" /\ Listed) =>
    \A k \in 1..Len(reply.layers) :
      reply.layers[k].path # <<nodes[pass.templateNode].name>> => Agrees(k)

\* the root of the template is listed, a rule names it with the value false,
\* and the inserted element is still visible
C29_RootNotFound ==
  /\ last.op = "insert"
  /\ Listed
  /\ reply.layers[1].name = "#solo"
  /\ msg.mappings = <<Rule("#solo", "show", "text")>>
  /\ LastRecord.show = Bool(FALSE)
  /\ findChildByName(nodes, Inserted, "#solo") = 0
  /\ nodes[Inserted].name = "#solo"
  /\ nodes[Inserted].visible

\* ------------------------------------------------------------ the URL cache
\* element e has an image on its sublayer named layerName
HasImageOn(e, layerName) ==
  /\ HasChildren(nodes[e])
  /\ findChildByName(nodes, e, layerName) # 0
  /\ nodes[findChildByName(nodes, e, layerName)].fills # 0

\* C30: after any sequence of sync, set-image and update-instance-id
\* requests, when get-image-urls reports a url for identifier k and sublayer
\* L, every element tagged k (that has sublayers) has an image on its
\* sublayer L.
C30_CacheCoherent ==
  last.op = "get-urls" =>
    \A q \in reply.urls : \A entry \in q[2] :
      \A e \in Tagged(nodes, q[1]) :
        HasChildren(nodes[e]) => HasImageOn(e, entry[1])

\* what holds: the element the answer is read from, the first one tagged k,
\* has an image on every sublayer its cache names
C30_FirstElementCoherent ==
  last.op = "get-urls" =>
    \A q \in reply.urls : \A entry \in q[2] : HasImageOn(FirstTagged(q[1]), entry[1])

\* the cards tagged "a" got the image, the card of "b" was then retagged "a":
\* the url is reported for "a" and the retagged card has no image on its box
C30_RetaggedWithoutImage ==
  /\ last.op = "get-urls"
  /\ <<S_a, {<<"#box", "u1">>}>> \in reply.urls
  /\ nodes[14].notionId = S_a
  /\ ~HasImageOn(14, "#box")
  /\ HasImageOn(5, "#box")

\* ------------------------------------------------------------ selected and full sync
\* the selected elements that sync-selected works on and that have sublayers
SelectedContainers ==
  {e \in SeqToSet(selection) : nodes[e].notionId # <<>> /\ HasChildren(nodes[e])}

\* visibility and text of element e and of every node below it
Shown(ns, e) == [n \in Subtree(ns, e) |-> <<ns[n].visible, ns[n].characters>>]

\* the records of the batch whose pass key is the tag of e, by position
RecordsOf(e) ==
  {j \in 1..Len(msg.data) : recordId(msg.data[j], msg.idField, j - 1) = nodes[e].notionId}

\* the tag of e is the identifier of exactly one record, and that identifier
\* is truthy
OnceAndGiven(e) ==
  /\ Cardinality(RecordsOf(e)) = 1
  /\ \A j \in RecordsOf(e) : Truthy(Get(msg.data[j], msg.idField))

\* C31: a sync-selected request leaves on every selected tagged container
\* element the visibility and text that a full sync of the same document with
\* the same rules, identifier field and records would leave on it, also when
\* the tag occurs more than once in the batch and when it is a "row-i"
\* placeholder.
C31_SelectedAgreesWithSync ==
  [][last'.op = "sync-selected" =>
       \A e \in SelectedContainers :
         Shown(nodes', e) = Shown(SyncMappedData(nodes, pageChildren, msg).nodes, e)]_vars

\* what holds: the same for the elements whose tag is the truthy identifier
\* of exactly one record of the batch
C31_AgreesOnSingleGivenKey ==
  [][last'.op = "sync-selected" =>
       \A e \in SelectedContainers :
         OnceAndGiven(e) =>
           Shown(nodes', e) = Shown(SyncMappedData(nodes, pageChildren, msg).nodes, e)]_vars

\* the card tagged "a" is selected and the batch holds two records of "a":
\* sync-selected left the first record's title on it, a pass leaves the
\* second's
C31_FirstRecordNotLast ==
  /\ last.op = "sync-selected"
  /\ passes = 0
  /\ msg.data = <<RecA2, RecA1>>
  /\ selection = <<5>>
  /\ reply.updatedCount = 1
  /\ nodes[7].characters = <<"B">>
  /\ SyncMappedData(nodes, pageChildren, msg).nodes[7].characters = <<"A", NL, "B">>

\* the card tagged "row-0" by an earlier pass is selected: sync-selected found
\* no record for it and left its title, a pass writes the first record's title
C31_PlaceholderNeverMatched ==
  /\ last.op = "sync-selected"
  /\ passes = 0
  /\ msg.data = <<RecNoId, RecZero>>
  /\ selection = <<5>>
  /\ nodes[5].notionId = RowKey(0)
  /\ reply.type = "sync-selected-done"
  /\ reply.updatedCount = 0
  /\ nodes[7].characters = <<"7">>
  /\ SyncMappedData(nodes, pageChildren, msg).nodes[7].characters = <<"A">>

====
